---- MODULE Spec2Model ----
(***************************************************************************)
(* A model of elegant_print.py (codex/skills/elegant-print/scripts).       *)
(*                                                                         *)
(* The components share no state (the booklet splitter only reads the page *)
(* count of the compiled document), so each one is checked under its own   *)
(* specification, the variables of the others held at rest:                *)
(*   SpecBooklet  main's "web" command from write_and_compile on, and      *)
(*                write_stapled_sections, one action per loop iteration.   *)
(*   SpecFlow     render_blocks over flow blocks and the nodes that flush  *)
(*                them, hybrid on and off.                                 *)
(*   SpecTree     render_blocks over nested elements and composite roots.  *)
(*   SpecImage    render_blocks with an ImageStore over images and         *)
(*                figures, the world answering downloads and conversions.  *)
(***************************************************************************)
EXTENDS Integers, Sequences, FiniteSets, TLC

VARIABLES
    \* ---- main / write_stapled_sections
    bpc,                \* position in main: "compile", "check", "loop", "done", "error"
    section_max_pages,  \* args.section_max_pages (S)
    total_pages,        \* len(reader.pages) of the compiled document (T)
    section_total,      \* write_stapled_sections' section_total
    sec_i,              \* the loop variable i
    main_pdf,           \* TRUE once write_and_compile has written elegant-print.pdf
    covers,             \* the cover documents compiled so far, in order
    outputs,            \* the section files written so far, in order
    \* ---- render_blocks (one pass over container.descendants)
    rpc,                \* "walk", "done" (returned), "raised" (left by an exception)
    hybrid,             \* the hybrid argument
    with_store,         \* image_store is not None
    stack,              \* the open ancestors of the next node, outermost first
    nvisited,           \* nodes visited so far; a node's id is its visit number
    parts,              \* the list returned
    flow_parts,         \* the pending flow buffer
    flow_words,
    flow_blocks,
    handled_images,     \* ids of the images already emitted
    store,              \* the ImageStore: cache, counter, files written, downloads
    fetch_log,          \* every ImageStore.fetch call so far, with its outcome
    \* ---- build_numbered_footnotes and the Converter built from its tables
    fpc,                \* "p_loop", "div_loop", "done" (returned)
    container,          \* the elements of the content subtree, in document order
    fn_i,               \* the element the running loop took last
    footnotes_by_number,
    footnotes_by_id,
    registered,         \* every (num, text, ids) a loop registered, in order
    last_call,          \* the last call of a conversion: [fn, arg, out]
    \* ---- render_blocks run a second time on the same tree
    pass,               \* 0: no second run is made; 1, 2: the run under way
    tape,               \* the tree as run 1 walked and left it; run 2 consumes it
    first_parts         \* what run 1 returned

bookletVars == <<bpc, section_max_pages, total_pages, section_total, sec_i,
                 main_pdf, covers, outputs>>

renderVars == <<rpc, hybrid, with_store, stack, nvisited, parts, flow_parts, flow_words,
                flow_blocks, handled_images, store, fetch_log>>

noteVars == <<fpc, container, fn_i, footnotes_by_number, footnotes_by_id, registered>>

rerunVars == <<pass, tape, first_parts>>

auxVars == <<noteVars, last_call, rerunVars>>

vars == <<bookletVars, renderVars, auxVars>>

(***************************************************************************)
(* Bounds of the model.                                                    *)
(***************************************************************************)
MaxPages == 25
MaxSection == 6
NegSection == 1

Min(a, b) == IF a <= b THEN a ELSE b
Max(a, b) == IF a >= b THEN a ELSE b

\* math.ceil(a / b) for a >= 0, b >= 1
CeilDiv(a, b) == (a + b - 1) \div b

\* range(a, b) as a sequence
Range(a, b) == [k \in 1..Max(0, b - a) |-> a + k - 1]

(***************************************************************************)
(* ImageStore.  A source (an attribute value) and a resolved URL are        *)
(* records                                                                 *)
(*   [form, scheme, host, path, mime, enc]                                 *)
(* form: "empty" (""), "abs" (scheme://host/path), "protorel" (//host/path)*)
(* "root" (/path) or "data" (data:<mime>[;base64],<payload>, enc telling   *)
(* how the payload is written: "base64", "badbase64", "percent", or        *)
(* "nocomma" for a data URI without its comma).                            *)
(***************************************************************************)
EmptySrc == [form |-> "empty", scheme |-> "", host |-> "", path |-> "", mime |-> "", enc |-> ""]
AbsSrc(scheme, host, path) ==
    [form |-> "abs", scheme |-> scheme, host |-> host, path |-> path, mime |-> "", enc |-> ""]
ProtoRelSrc(host, path) ==
    [form |-> "protorel", scheme |-> "", host |-> host, path |-> path, mime |-> "", enc |-> ""]
RootSrc(path) ==
    [form |-> "root", scheme |-> "", host |-> "", path |-> path, mime |-> "", enc |-> ""]
DataSrc(mime, enc) ==
    [form |-> "data", scheme |-> "", host |-> "", path |-> "", mime |-> mime, enc |-> enc]

\* self.page_url
PageScheme == "https"
PageHost == "site.example"
TrustedAvatarHost == "substack-post-media.s3.amazonaws.com"

\* An absent attribute (img.get(...) is None) or its text, a sequence of characters.
NoAttr == [present |-> FALSE, text |-> <<>>]
Attr(chars) == [present |-> TRUE, text |-> chars]

Digits == {"0", "1", "2", "3", "4", "5", "6", "7", "8", "9"}
DigitVal(c) ==
    CASE c = "0" -> 0 [] c = "1" -> 1 [] c = "2" -> 2 [] c = "3" -> 3 [] c = "4" -> 4
      [] c = "5" -> 5 [] c = "6" -> 6 [] c = "7" -> 7 [] c = "8" -> 8 [] c = "9" -> 9

\* The index of the first digit of s at or after i, 0 if there is none.
RECURSIVE FirstDigit(_, _)
FirstDigit(s, i) ==
    IF i > Len(s) THEN 0
    ELSE IF s[i] \in Digits THEN i
    ELSE FirstDigit(s, i + 1)

\* int() of the run of digits of s that starts at i.
RECURSIVE RunValue(_, _, _)
RunValue(s, i, acc) ==
    IF i > Len(s) \/ s[i] \notin Digits THEN acc
    ELSE RunValue(s, i + 1, acc * 10 + DigitVal(s[i]))

\* parse_dimension: 0 for None, else the first run of digits, else 0.
ParseDimension(value) ==
    IF ~value.present THEN 0
    ELSE LET i == FirstDigit(value.text, 1)
         IN  IF i = 0 THEN 0 ELSE RunValue(value.text, i, 0)

\* _pick_source: the first non-empty of src, data-src, data-lazy-src,
\* data-original (img.srcs, in that order), else the first srcset candidate.
RECURSIVE FirstNonEmpty(_)
FirstNonEmpty(srcs) ==
    IF srcs = <<>> THEN EmptySrc
    ELSE IF srcs[1] # EmptySrc THEN srcs[1]
    ELSE FirstNonEmpty(Tail(srcs))

PickSource(img) ==
    LET value == FirstNonEmpty(img.srcs)
    IN  IF value # EmptySrc THEN value
        ELSE IF img.srcset # <<>> THEN img.srcset[1]
        ELSE EmptySrc

\* _resolve_source: a data URI as is, "//" gets "https:", then urljoin.
ResolveSource(src) ==
    CASE src.form = "data" -> src
      [] src.form = "protorel" -> AbsSrc("https", src.host, src.path)
      [] src.form = "root" -> AbsSrc(PageScheme, PageHost, src.path)
      [] OTHER -> src

\* token in " ".join(classes).lower(), for the class names of the model
ClassHasDecorativeToken(c) ==
    c \in {"avatar", "user-avatar", "icon", "Icon", "silicon", "site-logo", "emoji"}

\* "avatar" in src.lower()
SrcHasAvatar(src) == src.path \in {"/avatar.png", "/Avatar/u1.png"}
\* "substack-post-media.s3.amazonaws.com" in src.lower()
SrcHasTrustedHost(src) == src.host = TrustedAvatarHost

IconMaxDimension == 80

\* _should_include
ShouldInclude(img, src) ==
    IF \E c \in img.cls : ClassHasDecorativeToken(c) THEN FALSE
    ELSE IF SrcHasAvatar(src) /\ ~SrcHasTrustedHost(src) THEN FALSE
    ELSE LET w == ParseDimension(img.width)
             h == ParseDimension(img.height)
         IN  ~(w # 0 /\ h # 0 /\ Max(w, h) <= IconMaxDimension)

\* What the world answers to one fetch: the GET ("ok" with a content type,
\* or "fail": any exception of requests.get / raise_for_status), and the
\* webp conversion ("ok", "nopil": PIL cannot be imported, "fail").
Env(get, ctype, webp) == [get |-> get, ctype |-> ctype, webp |-> webp]

\* _download: [data: TRUE when bytes were returned, ctype, raised]
DownloadUncaught(resolved, env) ==
    IF resolved.form = "data"
      THEN [data |-> resolved.enc \in {"base64", "percent"}, ctype |-> resolved.mime,
            raised |-> resolved.enc \in {"nocomma", "badbase64"}]
      ELSE [data |-> env.get = "ok", ctype |-> IF env.get = "ok" THEN env.ctype ELSE "",
            raised |-> env.get = "fail"]
Download(resolved, env) ==
    IF resolved.form = "data"
      THEN IF resolved.enc = "nocomma"
             THEN [data |-> FALSE, ctype |-> "", raised |-> FALSE]
           ELSE IF resolved.enc = "badbase64"
             THEN [data |-> FALSE, ctype |-> resolved.mime, raised |-> FALSE]
           ELSE [data |-> TRUE, ctype |-> resolved.mime, raised |-> FALSE]
      ELSE IF env.get = "fail"
             THEN [data |-> FALSE, ctype |-> "", raised |-> FALSE]
             ELSE [data |-> TRUE, ctype |-> env.ctype, raised |-> FALSE]

\* CONTENT_TYPE_IMAGE_EXT
ContentTypeImageExt(ctype) ==
    CASE ctype = "image/jpeg" -> ".jpg"
      [] ctype = "image/jpg" -> ".jpg"
      [] ctype = "image/png" -> ".png"
      [] ctype = "application/pdf" -> ".pdf"
      [] ctype = "image/webp" -> ".webp"
      [] OTHER -> ""

\* Path(urlparse(resolved).path).suffix.lower(), for the paths of the model
UrlSuffix(resolved) ==
    CASE resolved.path \in {"/a.png", "/avatar.png", "/Avatar/u1.png"} -> ".png"
      [] resolved.path = "/b.webp" -> ".webp"
      [] resolved.path = "/c.gif" -> ".gif"
      [] resolved.path = "/d.JPG" -> ".jpg"
      [] OTHER -> ""

\* _infer_extension
InferExtension(resolved, ctype) ==
    IF ContentTypeImageExt(ctype) # "" THEN ContentTypeImageExt(ctype)
    ELSE IF ctype = "image/svg+xml" THEN ".svg"
    ELSE IF UrlSuffix(resolved) \in {".jpeg", ".jpg", ".png", ".pdf", ".webp", ".svg"}
      THEN UrlSuffix(resolved)
    ELSE ".jpg"

\* _convert_webp
ConvertWebp(env) == IF env.webp = "ok" THEN ".png" ELSE ".skip"

LatexImageExts == {".jpg", ".jpeg", ".png", ".pdf"}

\* An asset path "elegant-print-assets/image-NNN.ext"; NoAsset is None.
NoAsset == [n |-> 0, ext |-> ""]
AssetUnnumbered(n, ext) == [n |-> 1, ext |-> ext]
Asset(n, ext) == [n |-> n, ext |-> ext]

\* ImageStore.__init__
NewStore == [cache |-> <<>>, counter |-> 0, files |-> {}, requests |-> <<>>]

\* "resolved in self.cache" / self.cache[resolved]
CacheGetAlwaysMiss(cache, resolved) == NoAsset
CacheGet(cache, resolved) ==
    LET hit == {k \in 1..Len(cache) : cache[k].url = resolved}
    IN  IF hit = {} THEN NoAsset ELSE cache[CHOOSE k \in hit : TRUE].rel

\* The outcome of fetch that leaves the store as it is but for the request log.
Skipped(st, why, reqs, raised) ==
    [store |-> [st EXCEPT !.requests = reqs], rel |-> NoAsset, why |-> why,
     raised |-> raised]

\* ImageStore.fetch: the store after the call, the returned path, why the
\* call ended as it did, and whether an exception left it.
Fetch(st, img, env) ==
    LET src == PickSource(img)
        resolved == ResolveSource(src)
        dl == Download(resolved, env)
        reqs == Append(st.requests, resolved)
        ext0 == InferExtension(resolved, dl.ctype)
        ext == IF ext0 = ".webp" THEN ConvertWebp(env) ELSE ext0
        n == st.counter + 1
        rel == Asset(n, ext)
    IN  IF src = EmptySrc THEN Skipped(st, "nosource", st.requests, FALSE)
        ELSE IF ~ShouldInclude(img, src) THEN Skipped(st, "filtered", st.requests, FALSE)
        ELSE IF resolved = EmptySrc THEN Skipped(st, "unresolved", st.requests, FALSE)
        ELSE IF CacheGet(st.cache, resolved) # NoAsset
          THEN [store |-> st, rel |-> CacheGet(st.cache, resolved), why |-> "cached",
                raised |-> FALSE]
        ELSE IF dl.raised THEN Skipped(st, "raised", reqs, TRUE)
        ELSE IF ~dl.data THEN Skipped(st, "download", reqs, FALSE)
        ELSE IF ext = ".skip" THEN Skipped(st, "convert", reqs, FALSE)
        ELSE IF ext \notin LatexImageExts THEN Skipped(st, "unsupported", reqs, FALSE)
        ELSE [store |-> [cache |-> Append(st.cache, [url |-> resolved, rel |-> rel]),
                         counter |-> n,
                         files |-> {f \in st.files : f.rel # rel}
                                      \cup {[rel |-> rel, url |-> resolved]},
                         requests |-> reqs],
              rel |-> rel, why |-> "written", raised |-> FALSE]

(***************************************************************************)
(* render_blocks.  A node of the tree is a record                          *)
(*   [tag, cls, text, words, fnhead, badges, img, imgs, caption]           *)
(* tag and cls are the element's name and classes; text tells whether what *)
(* the branch for this tag renders from the node is non-empty (the heading *)
(* text, convert_children(node).strip(), render_list, render_conversation, *)
(* ...); words is word_count(node.get_text()); fnhead: the heading text    *)
(* starts with "Footnotes for Part"; badges: extract_heading found badges; *)
(* img: the attributes of an img; imgs and caption: a figure's             *)
(* find_all("img") and whether its figcaption renders non-empty.           *)
(* The pass visits container.descendants in document order: Visit takes    *)
(* the next node as a child of the innermost open element, Leave closes    *)
(* that element.                                                           *)
(***************************************************************************)
NoImg == [srcs |-> <<>>, srcset |-> <<>>, cls |-> {}, width |-> NoAttr, height |-> NoAttr,
          alt |-> ""]
Img(srcs, srcset, cls, width, height, alt) ==
    [srcs |-> srcs, srcset |-> srcset, cls |-> cls, width |-> width, height |-> height,
     alt |-> alt]

Node(tag, cls, text, words) ==
    [tag |-> tag, cls |-> cls, text |-> text, words |-> words, fnhead |-> FALSE,
     badges |-> FALSE, img |-> NoImg, imgs |-> <<>>, caption |-> FALSE]
HeadingNode(tag, text, fnhead, badges) ==
    [Node(tag, {}, text, 0) EXCEPT !.fnhead = fnhead, !.badges = badges]
ImgNode(img) == [Node("img", img.cls, FALSE, 0) EXCEPT !.img = img]
FigureNode(imgs, caption) ==
    [Node("figure", {}, FALSE, 0) EXCEPT !.imgs = imgs, !.caption = caption]

\* Elements that cannot have children.
VoidTags == {"img", "hr"}

\* node.find_parent(names): an ancestor with one of the names
HasParent(anc, names) == \E k \in 1..Len(anc) : anc[k].tag \in names
\* node.find_parent("div", class_=c)
HasDivParent(anc, c) == \E k \in 1..Len(anc) : anc[k].tag = "div" /\ c \in anc[k].cls

\* The locals of render_blocks (and the store it drives) as one record.
Locals ==
    [parts |-> parts, flow_parts |-> flow_parts, flow_words |-> flow_words,
     flow_blocks |-> flow_blocks, handled_images |-> handled_images, store |-> store,
     fetch_log |-> fetch_log, raised |-> FALSE]

\* One entry of parts.  kind: "flow" (a chunk appended as it is),
\* "hybridcols" (a chunk inside \begin{hybridcols}), "conversation",
\* "admonition", "section", "subsection", "subsubsection", "badges",
\* "newline", "image", "modelexampletitle", "code", "caption", "rule".
\* id and anc: the node it was rendered from and that node's ancestors.
Part(kind, id, anc) ==
    [kind |-> kind, id |-> id, anc |-> anc, items |-> <<>>, rel |-> NoAsset, caption |-> ""]
Chunk(kind, items) ==
    [kind |-> kind, id |-> 0, anc |-> <<>>, items |-> items, rel |-> NoAsset, caption |-> ""]
FlowItem(kind, id, anc, words) == [kind |-> kind, id |-> id, anc |-> anc, words |-> words]

HybridMinBlocks == 2
HybridMinWords == 110
HybridWordsAlone == 180

\* flush_flow's test
PackWordsOnly(blocks, words) == words >= HybridMinWords
PackHybrid(blocks, words) ==
    (blocks >= HybridMinBlocks /\ words >= HybridMinWords) \/ words >= HybridWordsAlone

UseHybridIgnoringFlag(h, blocks, words) == PackHybrid(blocks, words)
UseHybrid(h, blocks, words) == h /\ PackHybrid(blocks, words)

\* push_flow
PushFlow(r, tex, item) ==
    IF ~tex THEN r
    ELSE [r EXCEPT !.flow_parts = Append(r.flow_parts, item),
                   !.flow_words = r.flow_words + item.words,
                   !.flow_blocks = r.flow_blocks + 1]

\* flush_flow
FlushFlowDropsChunk(r, h) ==
    [r EXCEPT !.flow_parts = <<>>, !.flow_words = 0, !.flow_blocks = 0]
FlushFlowKeepsBuffer(r, h) ==
    IF r.flow_parts = <<>> THEN r
    ELSE [r EXCEPT !.parts = Append(r.parts,
                        Chunk(IF UseHybrid(h, r.flow_blocks, r.flow_words)
                                THEN "hybridcols" ELSE "flow", r.flow_parts))]
FlushFlow(r, h) ==
    IF r.flow_parts = <<>> THEN r
    ELSE [r EXCEPT !.parts = Append(r.parts,
                        Chunk(IF UseHybrid(h, r.flow_blocks, r.flow_words)
                                THEN "hybridcols" ELSE "flow", r.flow_parts)),
                   !.flow_parts = <<>>,
                   !.flow_words = 0,
                   !.flow_blocks = 0]

\* parts.append(...)
EmitIntoBuffer(r, part) ==
    [r EXCEPT !.flow_parts = Append(r.flow_parts, FlowItem(part.kind, part.id, part.anc, 0))]
Emit(r, part) == [r EXCEPT !.parts = Append(r.parts, part)]

\* render_image_tag, and what its callers do with a non-empty result:
\* append it to parts and add the image to handled_images.
RenderImageTag(r, img, env, caption, id, idx, anc) ==
    LET f == Fetch(r.store, img, env)
        entry == [id |-> id, idx |-> idx, img |-> img, env |-> env,
                  url |-> ResolveSource(PickSource(img)),
                  why |-> f.why, rel |-> f.rel, before |-> r.store, after |-> f.store]
        logged == [r EXCEPT !.store = f.store,
                            !.fetch_log = Append(r.fetch_log, entry),
                            !.raised = f.raised]
        final_caption == IF caption THEN "caption"
                         ELSE IF img.alt \notin {"", "image", "Photo"} THEN "alt"
                         ELSE ""
    IN  IF f.raised \/ f.rel = NoAsset THEN logged
        ELSE [logged EXCEPT
                !.parts = Append(r.parts,
                             [Part("image", id, anc) EXCEPT !.rel = f.rel,
                                                            !.caption = final_caption,
                                                            !.items = <<img>>]),
                !.handled_images = r.handled_images \cup {<<id, idx>>}]

\* The loop over a figure's images, from the idx-th on.
RECURSIVE FigureImages(_, _, _, _, _, _)
FigureImages(r, n, envs, idx, id, anc) ==
    IF idx > Len(n.imgs) \/ r.raised THEN r
    ELSE FigureImages(
             RenderImageTag(r, n.imgs[idx], envs[idx],
                            n.caption /\ idx = Len(n.imgs), id, idx, anc),
             n, envs, idx + 1, id, anc)

HeadingLevelTwoLevels(tag) == IF tag \in {"h1", "h2"} THEN "section" ELSE "subsection"
HeadingLevel(tag) ==
    CASE tag \in {"h1", "h2"} -> "section"
      [] tag = "h3" -> "subsection"
      [] tag = "h4" -> "subsubsection"

\* The branches of the loop body on node.name (lines 1127-1224).
ByTag(r, n, id, anc, envs, h, ws) ==
    CASE n.tag \in {"h1", "h2", "h3", "h4"} ->
           LET f == FlushFlow(r, h)
           IN  IF ~n.text \/ n.fnhead THEN f
               ELSE Emit(Emit(f, Part(HeadingLevel(n.tag), id, anc)),
                         Part(IF n.badges THEN "badges" ELSE "newline", id, anc))
      [] n.tag = "figure" ->
           IF ~ws \/ HasParent(anc, {"figure"}) THEN r
           ELSE FigureImages(FlushFlow(r, h), n, envs, 1, id, anc)
      [] n.tag = "p" ->
           IF HasParent(anc, {"blockquote", "li", "table", "figure"}) THEN r
           ELSE IF "footnote" \in n.cls THEN r
           ELSE PushFlow(r, n.text, FlowItem("p", id, anc, n.words))
      [] n.tag = "img" ->
           IF ~ws \/ <<id, 0>> \in r.handled_images \/ HasParent(anc, {"figure"}) THEN r
           ELSE RenderImageTag(FlushFlow(r, h), n.img, envs[1], FALSE, id, 0, anc)
      [] n.tag = "div" /\ "figure" \in n.cls ->
           LET f == FlushFlow(r, h)
           IN  IF n.text THEN Emit(f, Part("modelexampletitle", id, anc)) ELSE f
      [] n.tag = "pre" ->
           IF HasParent(anc, {"pre", "code"}) THEN r
           ELSE LET f == FlushFlow(r, h)
                IN  IF n.text THEN Emit(f, Part("code", id, anc)) ELSE f
      [] n.tag \in {"ul", "ol"} ->
           IF HasParent(anc, {"ul", "ol"}) THEN r
           ELSE PushFlow(r, n.text, FlowItem("list", id, anc, n.words))
      [] n.tag = "blockquote" ->
           IF HasParent(anc, {"blockquote"}) THEN r
           ELSE PushFlow(r, n.text, FlowItem("quote", id, anc, n.words))
      [] n.tag = "cite" ->
           IF HasParent(anc, {"p", "blockquote", "li"}) THEN r
           ELSE PushFlow(r, n.text, FlowItem("cite", id, anc, n.words))
      [] n.tag = "figcaption" ->
           IF ~HasParent(anc, {"figure", "table"}) \/ HasParent(anc, {"figure"}) THEN r
           ELSE LET f == FlushFlow(r, h)
                IN  IF n.text THEN Emit(f, Part("caption", id, anc)) ELSE f
      [] n.tag = "hr" -> Emit(FlushFlow(r, h), Part("rule", id, anc))
      [] OTHER -> r

\* The body of "for node in container.descendants" for one Tag (lines 1101-1224).
LoopBody(r, n, id, anc, envs, h, ws) ==
    IF "conversation" \in n.cls
      THEN IF HasDivParent(anc, "conversation") THEN r
           ELSE LET f == FlushFlow(r, h)
                IN  IF n.text THEN Emit(f, Part("conversation", id, anc)) ELSE f
    ELSE IF "admonition" \in n.cls /\ "admonition-content" \in n.cls
      THEN IF HasDivParent(anc, "admonition-content") THEN r
           ELSE LET f == FlushFlow(r, h)
                IN  IF n.text THEN Emit(f, Part("admonition", id, anc)) ELSE f
    ELSE IF HasDivParent(anc, "conversation") THEN r
    ELSE IF HasDivParent(anc, "admonition-content") THEN r
    ELSE ByTag(r, n, id, anc, envs, h, ws)

\* The state after construction and the first lines of render_blocks.
InitRender(hybrids, stores) ==
    /\ rpc = "walk"
    /\ hybrid \in hybrids
    /\ with_store \in stores
    /\ stack = <<>>
    /\ nvisited = 0
    /\ parts = <<>>
    /\ flow_parts = <<>>
    /\ flow_words = 0
    /\ flow_blocks = 0
    /\ handled_images = {}
    /\ store = NewStore
    /\ fetch_log = <<>>

\* render_blocks is not running.
RenderIdle ==
    /\ rpc = "idle"
    /\ hybrid = FALSE
    /\ with_store = FALSE
    /\ stack = <<>>
    /\ nvisited = 0
    /\ parts = <<>>
    /\ flow_parts = <<>>
    /\ flow_words = 0
    /\ flow_blocks = 0
    /\ handled_images = {}
    /\ store = NewStore
    /\ fetch_log = <<>>

SetLocals(r) ==
    /\ parts' = r.parts
    /\ flow_parts' = r.flow_parts
    /\ flow_words' = r.flow_words
    /\ flow_blocks' = r.flow_blocks
    /\ handled_images' = r.handled_images
    /\ store' = r.store
    /\ fetch_log' = r.fetch_log

\* The loop takes the next descendant, a child of the innermost open element.
VisitStep(n, envs, maxNodes, maxDepth) ==
    /\ rpc = "walk"
    /\ nvisited < maxNodes
    /\ n.tag \in VoidTags \/ Len(stack) < maxDepth
    /\ LET id == nvisited + 1
           r == LoopBody(Locals, n, id, stack, envs, hybrid, with_store)
       IN  /\ SetLocals(r)
           /\ rpc' = IF r.raised THEN "raised" ELSE "walk"
           /\ nvisited' = id
           /\ stack' = IF n.tag \in VoidTags THEN stack
                       ELSE Append(stack, [tag |-> n.tag, cls |-> n.cls, id |-> id])
    /\ UNCHANGED <<hybrid, with_store>>
    /\ UNCHANGED bookletVars

Visit(n, envs, maxNodes, maxDepth) ==
    /\ VisitStep(n, envs, maxNodes, maxDepth)
    /\ UNCHANGED auxVars

\* The innermost open element has no further descendants.
LeaveStep ==
    /\ rpc = "walk"
    /\ stack # <<>>
    /\ stack' = SubSeq(stack, 1, Len(stack) - 1)
    /\ UNCHANGED <<rpc, hybrid, with_store, nvisited, parts, flow_parts, flow_words,
                   flow_blocks, handled_images, store, fetch_log>>
    /\ UNCHANGED bookletVars

Leave ==
    /\ LeaveStep
    /\ UNCHANGED auxVars

\* The descendants are exhausted: the final flush_flow() and "return parts".
ReturnStep ==
    /\ rpc = "walk"
    /\ SetLocals(FlushFlow(Locals, hybrid))
    /\ rpc' = "done"
    /\ stack' = <<>>
    /\ UNCHANGED <<hybrid, with_store, nvisited>>
    /\ UNCHANGED bookletVars

Return ==
    /\ ReturnStep
    /\ UNCHANGED auxVars

\* build_numbered_footnotes is not running and no table has been built.
NoteIdle ==
    /\ fpc = "idle"
    /\ container = <<>>
    /\ fn_i = 0
    /\ footnotes_by_number = <<>>
    /\ footnotes_by_id = <<>>
    /\ registered = <<>>

\* No conversion has been called.
NoCall == [fn |-> "none", arg |-> <<>>, out |-> <<>>]

\* No second run of render_blocks is made.
RerunIdle ==
    /\ pass = 0
    /\ tape = <<>>
    /\ first_parts = <<>>

AuxIdle == NoteIdle /\ last_call = NoCall /\ RerunIdle

\* main is not running.
BookletIdle ==
    /\ bpc = "idle"
    /\ section_max_pages = 0
    /\ total_pages = 0
    /\ section_total = 0
    /\ sec_i = 0
    /\ main_pdf = FALSE
    /\ covers = <<>>
    /\ outputs = <<>>

(***************************************************************************)
(* write_stapled_sections' arithmetic.                                     *)
(***************************************************************************)
ContentPagesPerSection(S) == Max(1, S - 1)

SectionTotalFloor(T, S) == Max(1, T \div ContentPagesPerSection(S))
SectionTotal(T, S) == Max(1, CeilDiv(T, ContentPagesPerSection(S)))

SectionStart(i, S) == i * ContentPagesPerSection(S)

SectionEndUnclipped(i, T, S) == (i + 1) * ContentPagesPerSection(S)
SectionEnd(i, T, S) == Min((i + 1) * ContentPagesPerSection(S), T)

\* What booklet_cover_tex prints: "Booklet {idx} of {total}" and
\* "Content pages {content_start}-{content_end}".
CoverZeroBased(i, total, start, end) ==
    [booklet_idx |-> i + 1, booklet_total |-> total,
     content_start |-> start, content_end |-> end]
Cover(i, total, start, end) ==
    [booklet_idx |-> i + 1, booklet_total |-> total,
     content_start |-> start + 1, content_end |-> end]

\* The section file: the cover's first page, then reader.pages[start..end-1].
SectionFile(cover, start, end) ==
    [cover |-> cover, cover_pages |-> 1, pages |-> Range(start, end)]

(***************************************************************************)
(* main (the "web" command) and write_stapled_sections.                    *)
(***************************************************************************)
InitBooklet ==
    /\ bpc = "compile"
    /\ section_max_pages \in (0 - NegSection)..MaxSection
    /\ total_pages \in 0..MaxPages
    /\ section_total = 0
    /\ sec_i = 0
    /\ main_pdf = FALSE
    /\ covers = <<>>
    /\ outputs = <<>>
    /\ RenderIdle
    /\ AuxIdle

\* main: build_web_tex, then write_and_compile writes the document.
WriteAndCompile ==
    /\ bpc = "compile"
    /\ main_pdf' = TRUE
    /\ bpc' = "check"
    /\ UNCHANGED <<section_max_pages, total_pages, section_total, sec_i, covers, outputs>>
    /\ UNCHANGED renderVars
    /\ UNCHANGED auxVars

\* main: "if args.section_max_pages:" is false for 0, and nothing else is done.
SkipSections ==
    /\ bpc = "check"
    /\ section_max_pages = 0
    /\ bpc' = "done"
    /\ UNCHANGED <<section_max_pages, total_pages, section_total, sec_i, main_pdf,
                   covers, outputs>>
    /\ UNCHANGED renderVars
    /\ UNCHANGED auxVars

\* write_stapled_sections up to its loop: the size check, the page count.
EnterSections ==
    /\ bpc = "check"
    /\ section_max_pages # 0
    /\ IF section_max_pages < 2
         THEN /\ bpc' = "error"
              /\ UNCHANGED section_total
         ELSE /\ bpc' = "loop"
              /\ section_total' = SectionTotal(total_pages, section_max_pages)
    /\ sec_i' = 0
    /\ UNCHANGED <<section_max_pages, total_pages, main_pdf, covers, outputs>>
    /\ UNCHANGED renderVars
    /\ UNCHANGED auxVars

\* One iteration of "for i in range(section_total)".
WriteSection ==
    /\ bpc = "loop"
    /\ sec_i < section_total
    /\ LET start == SectionStart(sec_i, section_max_pages)
           end   == SectionEnd(sec_i, total_pages, section_max_pages)
           cover == Cover(sec_i, section_total, start, end)
       IN  /\ covers' = Append(covers, cover)
           /\ outputs' = Append(outputs, SectionFile(cover, start, end))
    /\ sec_i' = sec_i + 1
    /\ UNCHANGED <<bpc, section_max_pages, total_pages, section_total, main_pdf>>
    /\ UNCHANGED renderVars
    /\ UNCHANGED auxVars

\* The loop is exhausted: return outputs.
ReturnSections ==
    /\ bpc = "loop"
    /\ sec_i >= section_total
    /\ bpc' = "done"
    /\ UNCHANGED <<section_max_pages, total_pages, section_total, sec_i, main_pdf,
                   covers, outputs>>
    /\ UNCHANGED renderVars
    /\ UNCHANGED auxVars

NextBooklet ==
    \/ WriteAndCompile
    \/ SkipSections
    \/ EnterSections
    \/ WriteSection
    \/ ReturnSections

SpecBooklet == InitBooklet /\ [][NextBooklet]_vars

\* write_stapled_sections has returned.
SectionsReturned == bpc = "done" /\ section_max_pages # 0

RECURSIVE ConcatPages(_)
ConcatPages(secs) ==
    IF secs = <<>> THEN <<>>
    ELSE secs[1].pages \o ConcatPages(Tail(secs))

(***************************************************************************)
(* SpecFlow: render_blocks over flow blocks and the structural nodes that  *)
(* flush them, with and without hybrid layout.                             *)
(***************************************************************************)
FlowMaxNodes == 3
FlowMaxDepth == 1

\* word_count values around the two thresholds
FlowWords == {0, 55, 100, 109, 110, 179, 180, 200}

FlowNodes ==
    {Node("p", {}, TRUE, w) : w \in FlowWords}
        \cup {Node("p", {}, FALSE, 0), Node("ul", {}, TRUE, 54), Node("blockquote", {}, TRUE, 1),
              Node("cite", {}, TRUE, 2), Node("pre", {}, TRUE, 30), Node("hr", {}, FALSE, 0),
              HeadingNode("h2", TRUE, FALSE, FALSE), HeadingNode("h3", FALSE, FALSE, FALSE)}

InitFlow == BookletIdle /\ AuxIdle /\ InitRender(BOOLEAN, {FALSE})

VisitFlow == \E n \in FlowNodes : Visit(n, <<>>, FlowMaxNodes, FlowMaxDepth)

NextFlow ==
    \/ VisitFlow
    \/ Leave
    \/ Return

SpecFlow == InitFlow /\ [][NextFlow]_vars

(***************************************************************************)
(* SpecTree: render_blocks over nested elements, composite roots among     *)
(* them.                                                                   *)
(***************************************************************************)
TreeMaxNodes == 3
TreeMaxDepth == 2

SrcA == AbsSrc("https", "cdn.example", "/a.png")
ImgA == Img(<<SrcA>>, <<>>, {}, NoAttr, NoAttr, "")

EnvFail == Env("fail", "", "ok")
EnvPng == Env("ok", "image/png", "ok")
EnvWebp == Env("ok", "image/webp", "ok")
EnvWebpNoPil == Env("ok", "image/webp", "nopil")
EnvWebpFail == Env("ok", "image/webp", "fail")
EnvSvg == Env("ok", "image/svg+xml", "ok")
EnvNoType == Env("ok", "", "ok")

CompositeClasses == {{"conversation"}, {"admonition", "admonition-content"}}

TreeNodes ==
    {Node(t, c, TRUE, 1) : t \in {"div", "section"}, c \in CompositeClasses}
        \cup {Node("div", {}, TRUE, 1), Node("p", {}, TRUE, 1), Node("ul", {}, TRUE, 1),
              Node("pre", {}, TRUE, 1), Node("hr", {}, FALSE, 0),
              HeadingNode("h2", TRUE, FALSE, FALSE), ImgNode(ImgA)}

InitTree == BookletIdle /\ AuxIdle /\ InitRender({FALSE}, {TRUE})

VisitTree == \E n \in TreeNodes : Visit(n, <<EnvPng>>, TreeMaxNodes, TreeMaxDepth)

NextTree ==
    \/ VisitTree
    \/ Leave
    \/ Return

SpecTree == InitTree /\ [][NextTree]_vars

(***************************************************************************)
(* SpecImage: render_blocks with an image store over images and figures,   *)
(* the world answering each download and conversion.                       *)
(***************************************************************************)
ImageMaxNodes == 2
ImageMaxDepth == 1

D0 == Attr(<<"0">>)
D16 == Attr(<<"1", "6">>)
D80px == Attr(<<"8", "0", "p", "x">>)
D81 == Attr(<<"8", "1">>)

SrcB == RootSrc("/c.gif")
SrcW == AbsSrc("https", "cdn.example", "/b.webp")

ImgAProtoRel == Img(<<ProtoRelSrc("cdn.example", "/a.png")>>, <<>>, {}, NoAttr, NoAttr, "image")
ImgAIcon == Img(<<SrcA>>, <<>>, {"icon"}, NoAttr, NoAttr, "")
ImgBLazy == Img(<<EmptySrc, SrcB>>, <<>>, {"hero"}, NoAttr, NoAttr, "A chart")
ImgWSrcset == Img(<<EmptySrc>>, <<SrcW, SrcA>>, {}, NoAttr, NoAttr, "")
ImgNoSource == Img(<<EmptySrc>>, <<>>, {}, NoAttr, NoAttr, "")
ImgData(enc) == Img(<<DataSrc("image/png", enc)>>, <<>>, {}, NoAttr, NoAttr, "")
ImgSized(w, h) == Img(<<SrcA>>, <<>>, {}, w, h, "")

\* Images on the trusted avatar host and images with "avatar" in their URL.
SrcTrusted == AbsSrc("https", TrustedAvatarHost, "/a.png")
SrcTrustedAvatar == AbsSrc("https", TrustedAvatarHost, "/Avatar/u1.png")
SrcAvatar == AbsSrc("https", "cdn.example", "/avatar.png")
ImgTrustedWithClass == Img(<<SrcTrusted>>, <<>>, {"user-avatar"}, NoAttr, NoAttr, "")
ImgTrustedAvatarUrl == Img(<<SrcTrustedAvatar>>, <<>>, {}, NoAttr, NoAttr, "")
ImgAvatarUrl == Img(<<SrcAvatar>>, <<>>, {}, NoAttr, NoAttr, "")

Images ==
    {ImgA, ImgAProtoRel, ImgAIcon, ImgBLazy, ImgWSrcset, ImgNoSource}
        \cup {ImgData(enc) : enc \in {"base64", "badbase64", "percent", "nocomma"}}
        \cup {ImgSized(D0, D0), ImgSized(D16, D80px), ImgSized(D81, D16), ImgSized(D16, NoAttr),
              ImgSized(D0, D16)}
        \cup {ImgTrustedWithClass, ImgTrustedAvatarUrl, ImgAvatarUrl}

Envs == {EnvFail, EnvPng, EnvWebp, EnvWebpNoPil, EnvWebpFail, EnvSvg, EnvNoType}

\* The answers tried for an image: all of them for the images that differ in
\* their source, two for those that differ in their declared size, and one
\* for an image whose fetch asks the world nothing (no source, filtered out,
\* a data URI).
Answers(img) ==
    IF img \in {ImgA, ImgAProtoRel, ImgBLazy, ImgWSrcset} THEN Envs
    ELSE IF PickSource(img) = SrcA /\ ShouldInclude(img, SrcA) THEN {EnvPng, EnvFail}
    ELSE {EnvPng}

Figures == {FigureNode(<<ImgA, ImgBLazy>>, TRUE), FigureNode(<<ImgWSrcset>>, FALSE)}
FigureEnvs == {EnvFail, EnvPng, EnvSvg}

InitImage == BookletIdle /\ AuxIdle /\ InitRender({FALSE}, {TRUE})

VisitImage ==
    \E img \in Images : \E env \in Answers(img) :
        Visit(ImgNode(img), <<env>>, ImageMaxNodes, ImageMaxDepth)

VisitFigure ==
    \E n \in Figures, e1 \in FigureEnvs, e2 \in FigureEnvs :
        Visit(n, <<e1, e2>>, ImageMaxNodes, ImageMaxDepth)

VisitText ==
    \E n \in {Node("p", {}, TRUE, 1), Node("hr", {}, FALSE, 0)} :
        Visit(n, <<>>, ImageMaxNodes, ImageMaxDepth)

NextImage ==
    \/ VisitImage
    \/ VisitFigure
    \/ VisitText
    \/ Leave
    \/ Return

SpecImage == InitImage /\ [][NextImage]_vars

(***************************************************************************)
(* SpecRerun: render_blocks run twice on one tree.  Run 1 walks a tree and *)
(* records it on the tape, every node as the pass left it, with the        *)
(* answers the world gave; run 2 starts from freshly constructed state and *)
(* walks the recorded tree with the same answers.                          *)
(***************************************************************************)
RerunMaxNodes == 3
RerunMaxDepth == 1

\* The node in the tree once the loop body has run on it: extract_heading
\* and render_admonition parse a copy of the node (lines 212, 816) and
\* decompose elements of the copy only; nothing else assigns to the tree.
NodeAfterBadgesStripped(n) == [n EXCEPT !.badges = FALSE]
NodeAfterVisit(n) == n

\* ImageStore(url, outdir): a fresh store, whatever an earlier one held.
FreshStore(st) == NewStore

RerunNodes ==
    {Node("p", {}, TRUE, 120), Node("ul", {}, TRUE, 70), Node("hr", {}, FALSE, 0),
     HeadingNode("h2", TRUE, FALSE, TRUE),
     Node("div", {"admonition", "admonition-content"}, TRUE, 5),
     ImgNode(ImgA), ImgNode(ImgAProtoRel)}

\* The answers tried for a node of the tree.
RerunAnswers(n) ==
    IF n.tag # "img" THEN {<<>>}
    ELSE IF n.img = ImgA THEN {<<EnvPng>>, <<EnvFail>>}
    ELSE {<<EnvPng>>}

TapeVisit(n, envs) == [op |-> "visit", n |-> n, after |-> NodeAfterVisit(n), envs |-> envs]
TapeLeave == [op |-> "leave", n |-> Node("", {}, FALSE, 0), after |-> Node("", {}, FALSE, 0),
              envs |-> <<>>]

InitRerun ==
    /\ BookletIdle
    /\ NoteIdle
    /\ last_call = NoCall
    /\ InitRender(BOOLEAN, BOOLEAN)
    /\ pass = 1
    /\ tape = <<>>
    /\ first_parts = <<>>

RecordVisit ==
    /\ pass = 1
    /\ \E n \in RerunNodes : \E envs \in RerunAnswers(n) :
          /\ VisitStep(n, envs, RerunMaxNodes, RerunMaxDepth)
          /\ tape' = Append(tape, TapeVisit(n, envs))
    /\ UNCHANGED <<pass, first_parts, noteVars, last_call>>

RecordLeave ==
    /\ pass = 1
    /\ LeaveStep
    /\ tape' = Append(tape, TapeLeave)
    /\ UNCHANGED <<pass, first_parts, noteVars, last_call>>

\* Either run returns; run 2 only once the whole tree has been walked.
ReturnRun ==
    /\ pass = 2 => tape = <<>>
    /\ ReturnStep
    /\ UNCHANGED <<rerunVars, noteVars, last_call>>

\* The second call of render_blocks, with a fresh converter and image store.
Rerun ==
    /\ pass = 1
    /\ rpc = "done"
    /\ pass' = 2
    /\ first_parts' = parts
    /\ rpc' = "walk"
    /\ stack' = <<>>
    /\ nvisited' = 0
    /\ parts' = <<>>
    /\ flow_parts' = <<>>
    /\ flow_words' = 0
    /\ flow_blocks' = 0
    /\ handled_images' = {}
    /\ store' = FreshStore(store)
    /\ fetch_log' = <<>>
    /\ UNCHANGED <<hybrid, with_store, tape, bookletVars, noteVars, last_call>>

ReplayVisit ==
    /\ pass = 2
    /\ tape # <<>>
    /\ tape[1].op = "visit"
    /\ VisitStep(tape[1].after, tape[1].envs, RerunMaxNodes, RerunMaxDepth)
    /\ tape' = Tail(tape)
    /\ UNCHANGED <<pass, first_parts, noteVars, last_call>>

ReplayLeave ==
    /\ pass = 2
    /\ tape # <<>>
    /\ tape[1].op = "leave"
    /\ LeaveStep
    /\ tape' = Tail(tape)
    /\ UNCHANGED <<pass, first_parts, noteVars, last_call>>

NextRerun ==
    \/ RecordVisit
    \/ RecordLeave
    \/ ReturnRun
    \/ Rerun
    \/ ReplayVisit
    \/ ReplayLeave

SpecRerun == InitRerun /\ [][NextRerun]_vars

(***************************************************************************)
(* SpecStruct: render_blocks over flow blocks and every kind of structural *)
(* node, with and without an image store; the tape records the walk.       *)
(***************************************************************************)
StructMaxNodes == 3
StructMaxDepth == 2

StructNodes ==
    {Node("p", {}, TRUE, 60),
     HeadingNode("h2", TRUE, FALSE, FALSE), HeadingNode("h3", FALSE, FALSE, FALSE),
     Node("pre", {}, FALSE, 0), Node("hr", {}, FALSE, 0),
     Node("div", {"conversation"}, TRUE, 9),
     ImgNode(ImgA), FigureNode(<<ImgA>>, TRUE)}

StructAnswers(n) ==
    IF n.tag \in {"img", "figure"} THEN {<<EnvPng>>, <<EnvFail>>} ELSE {<<>>}

InitStruct ==
    /\ BookletIdle
    /\ NoteIdle
    /\ last_call = NoCall
    /\ InitRender({TRUE}, BOOLEAN)
    /\ pass = 1
    /\ tape = <<>>
    /\ first_parts = <<>>

StructVisit ==
    /\ pass = 1
    /\ \E n \in StructNodes : \E envs \in StructAnswers(n) :
          /\ VisitStep(n, envs, StructMaxNodes, StructMaxDepth)
          /\ tape' = Append(tape, TapeVisit(n, envs))
    /\ UNCHANGED <<pass, first_parts, noteVars, last_call>>

NextStruct ==
    \/ StructVisit
    \/ RecordLeave
    \/ ReturnRun

SpecStruct == InitStruct /\ [][NextStruct]_vars

(***************************************************************************)
(* SpecHeadings: render_blocks over headings of every level, with and      *)
(* without text and badges, between paragraphs; the tape records the walk. *)
(***************************************************************************)
HeadMaxNodes == 3
HeadMaxDepth == 1

HeadNodes ==
    {HeadingNode(t, TRUE, FALSE, FALSE) : t \in {"h1", "h2", "h3", "h4"}}
        \cup {HeadingNode("h3", TRUE, FALSE, TRUE), HeadingNode("h2", FALSE, FALSE, FALSE),
              HeadingNode("h1", TRUE, TRUE, FALSE), Node("p", {}, TRUE, 40)}

InitHeadings ==
    /\ BookletIdle
    /\ NoteIdle
    /\ last_call = NoCall
    /\ InitRender(BOOLEAN, {TRUE})
    /\ pass = 1
    /\ tape = <<>>
    /\ first_parts = <<>>

HeadVisit ==
    /\ pass = 1
    /\ \E n \in HeadNodes :
          /\ VisitStep(n, <<>>, HeadMaxNodes, HeadMaxDepth)
          /\ tape' = Append(tape, TapeVisit(n, <<>>))
    /\ UNCHANGED <<pass, first_parts, noteVars, last_call>>

NextHeadings ==
    \/ HeadVisit
    \/ RecordLeave
    \/ ReturnRun

SpecHeadings == InitHeadings /\ [][NextHeadings]_vars

(***************************************************************************)
(* SpecFigure: render_blocks over figures of one and two images, with and  *)
(* without a caption, every image fetched or failing; the tape records the *)
(* walk.                                                                   *)
(***************************************************************************)
FigMaxNodes == 3
FigMaxDepth == 1

FigNodes ==
    {FigureNode(<<ImgA, ImgBLazy>>, TRUE), FigureNode(<<ImgA>>, TRUE),
     FigureNode(<<ImgBLazy, ImgA>>, FALSE), ImgNode(ImgA), ImgNode(ImgBLazy),
     Node("p", {}, TRUE, 40)}

FigAnswers(n) ==
    IF n.tag = "figure" THEN [1..Len(n.imgs) -> {EnvPng, EnvFail}]
    ELSE IF n.tag = "img" THEN {<<EnvPng>>}
    ELSE {<<>>}

InitFigure ==
    /\ BookletIdle
    /\ NoteIdle
    /\ last_call = NoCall
    /\ InitRender({FALSE}, {TRUE})
    /\ pass = 1
    /\ tape = <<>>
    /\ first_parts = <<>>

FigVisit ==
    /\ pass = 1
    /\ \E n \in FigNodes : \E envs \in FigAnswers(n) :
          /\ VisitStep(n, envs, FigMaxNodes, FigMaxDepth)
          /\ tape' = Append(tape, TapeVisit(n, envs))
    /\ UNCHANGED <<pass, first_parts, noteVars, last_call>>

NextFigure ==
    \/ FigVisit
    \/ RecordLeave
    \/ ReturnRun

SpecFigure == InitFigure /\ [][NextFigure]_vars

(***************************************************************************)
(* SpecNested: render_blocks over paragraphs, lists, list items, quotes    *)
(* and example titles (div.figure) nested in each other.                   *)
(***************************************************************************)
NestMaxNodes == 3
NestMaxDepth == 2

NestNodes ==
    {Node("p", {}, TRUE, 10), Node("ul", {}, TRUE, 20), Node("li", {}, TRUE, 10),
     Node("blockquote", {}, TRUE, 20), Node("div", {"figure"}, TRUE, 5)}

InitNested == BookletIdle /\ AuxIdle /\ InitRender({FALSE}, {FALSE})

VisitNested == \E n \in NestNodes : Visit(n, <<>>, NestMaxNodes, NestMaxDepth)

NextNested ==
    \/ VisitNested
    \/ Leave
    \/ Return

SpecNested == InitNested /\ [][NextNested]_vars

(***************************************************************************)
(* build_numbered_footnotes.  The container's elements are siblings, in    *)
(* document order.  An element is a record                                 *)
(*   [tag, footnote, id, span, span_num, has_prefix, prefix, body,         *)
(*    link, link_id, frag, label_num, present]                             *)
(* footnote: "footnote" is among its classes; id: its id attribute.        *)
(* For a p: span tells whether it holds a span.footnote-ref and span_num   *)
(* the first number in the span's text (0: no digits); what is left        *)
(* renders as "[prefix] body" when has_prefix, else as body.               *)
(* For a div: link tells whether it holds an a.footnote-number, link_id    *)
(* that link's id, frag the fragment of its href (EmptyKey: no href or no  *)
(* fragment), label_num the first number in its text (0: none); body is    *)
(* what the content renders as once the link is taken out.                 *)
(* present turns FALSE when the element is decomposed.                     *)
(* A text is "" or the name of a rendered body.  An id or fragment is a    *)
(* record [kind, n, name, ws]: "footnote-n" (kind "fn"),                   *)
(* "footnote-anchor-n" (kind "anchor"), another name (kind "other") or ""  *)
(* (kind "empty"); ws: the attribute is written with surrounding blanks.   *)
(***************************************************************************)
EmptyKey == [kind |-> "empty", n |-> 0, name |-> "", ws |-> FALSE]
NameKey(name) == [kind |-> "other", n |-> 0, name |-> name, ws |-> FALSE]
PaddedKey(name) == [kind |-> "other", n |-> 0, name |-> name, ws |-> TRUE]
\* f"footnote-{num}" and f"footnote-anchor-{num}"
FootnoteKey(num) == [kind |-> "fn", n |-> num, name |-> "", ws |-> FALSE]
FootnoteAnchorKey(num) == [kind |-> "anchor", n |-> num, name |-> "", ws |-> FALSE]

\* collapse_ws on an id
CollapseWs(key) == [key EXCEPT !.ws = FALSE]

\* re.search(r"footnote(?:-anchor)?-(\d+)", fragment): the number, 0 without a match
FragmentNumber(frag) == IF frag.kind \in {"fn", "anchor"} THEN frag.n ELSE 0

\* dict: d[k] = v, and k in d
Put(d, k, v) == [x \in DOMAIN d \cup {k} |-> IF x = k THEN v ELSE d[x]]
Has(d, k) == k \in DOMAIN d

\* register_ids' loop "for item in ids"
RECURSIVE PutIds(_, _, _)
PutIds(d, ids, text) ==
    IF ids = <<>> THEN d
    ELSE LET key == CollapseWs(ids[1])
         IN  PutIds(IF key # EmptyKey THEN Put(d, key, text) ELSE d, Tail(ids), text)

\* register_ids
RegisterIds(d, text, num, ids) ==
    IF text = "" THEN d
    ELSE PutIds(IF num # 0
                  THEN Put(Put(d, FootnoteKey(num), text), FootnoteAnchorKey(num), text)
                  ELSE d,
                ids, text)

NoteP(id, span, span_num, has_prefix, prefix, body) ==
    [tag |-> "p", footnote |-> TRUE, id |-> id, span |-> span, span_num |-> span_num,
     has_prefix |-> has_prefix, prefix |-> prefix, body |-> body,
     link |-> FALSE, link_id |-> EmptyKey, frag |-> EmptyKey, label_num |-> 0,
     present |-> TRUE]
NoteDiv(id, link, link_id, frag, label_num, body) ==
    [tag |-> "div", footnote |-> TRUE, id |-> id, span |-> FALSE, span_num |-> 0,
     has_prefix |-> FALSE, prefix |-> 0, body |-> body,
     link |-> link, link_id |-> link_id, frag |-> frag, label_num |-> label_num,
     present |-> TRUE]
\* an element that is no footnote source
Ordinary(tag) == [NoteP(EmptyKey, FALSE, 0, FALSE, 0, "tA") EXCEPT !.tag = tag, !.footnote = FALSE]

\* The number and text the p loop derives from one p.footnote (lines 563-585).
PNote(e) ==
    LET num0 == IF e.span THEN e.span_num ELSE 0
        raw_empty == ~e.has_prefix /\ e.body = ""
    IN  [raw_empty |-> raw_empty,
         num |-> IF num0 = 0 /\ e.has_prefix THEN e.prefix ELSE num0,
         text |-> e.body,
         ids |-> <<e.id>>]

\* The number, text and ids the div loop derives from one div.footnote (598-618).
DivNote(e) ==
    LET num0 == IF e.link THEN FragmentNumber(e.frag) ELSE 0
    IN  [raw_empty |-> FALSE,
         num |-> IF e.link /\ num0 = 0 THEN e.label_num ELSE num0,
         text |-> e.body,
         ids |-> IF ~e.link THEN <<e.id>>
                 ELSE IF e.frag # EmptyKey THEN <<e.id, e.link_id, e.frag>>
                 ELSE <<e.id, e.link_id>>]

\* container.select("p.footnote") / container.select("div.footnote")
Selected(tag) ==
    {k \in 1..Len(container) :
        container[k].present /\ container[k].tag = tag /\ container[k].footnote}

\* The element a "for ... in select(...)" loop takes next.
NextSelected(tag) == {k \in Selected(tag) : k > fn_i /\ \A j \in Selected(tag) : j > fn_i => k <= j}

\* p.decompose() / div.decompose() on element k
DecomposeNothing(c, k) == c
Decompose(c, k) == [c EXCEPT ![k].present = FALSE]

\* One iteration of either loop on element k: register, then decompose.
ProcessNote(k, note) ==
    /\ fn_i' = k
    /\ container' = Decompose(container, k)
    /\ IF ~note.raw_empty /\ note.num # 0 /\ note.text # ""
         THEN /\ footnotes_by_number' = Put(footnotes_by_number, note.num, note.text)
              /\ footnotes_by_id' = RegisterIds(footnotes_by_id, note.text, note.num, note.ids)
              /\ registered' = Append(registered,
                                   [elem |-> k, num |-> note.num, text |-> note.text,
                                    ids |-> note.ids])
         ELSE UNCHANGED <<footnotes_by_number, footnotes_by_id, registered>>

\* One iteration of "for p in container.select('p.footnote')".
FootnoteP ==
    /\ fpc = "p_loop"
    /\ \E k \in NextSelected("p") : ProcessNote(k, PNote(container[k]))
    /\ UNCHANGED fpc
    /\ UNCHANGED <<bookletVars, renderVars, last_call, rerunVars>>

\* The p loop is exhausted; the div loop starts.
EndPLoop ==
    /\ fpc = "p_loop"
    /\ NextSelected("p") = {}
    /\ fpc' = "div_loop"
    /\ fn_i' = 0
    /\ UNCHANGED <<container, footnotes_by_number, footnotes_by_id, registered>>
    /\ UNCHANGED <<bookletVars, renderVars, last_call, rerunVars>>

\* One iteration of "for div in container.select('div.footnote')".
FootnoteDiv ==
    /\ fpc = "div_loop"
    /\ \E k \in NextSelected("div") : ProcessNote(k, DivNote(container[k]))
    /\ UNCHANGED fpc
    /\ UNCHANGED <<bookletVars, renderVars, last_call, rerunVars>>

\* return footnotes_by_number, footnotes_by_id
ReturnFootnotes ==
    /\ fpc = "div_loop"
    /\ NextSelected("div") = {}
    /\ fpc' = "done"
    /\ UNCHANGED <<container, fn_i, footnotes_by_number, footnotes_by_id, registered>>
    /\ UNCHANGED <<bookletVars, renderVars, last_call, rerunVars>>

(***************************************************************************)
(* Converter: footnote references.  An href is a record                    *)
(*   [form, host, path, frag]                                              *)
(* form: "empty" (""), "frag" ("#frag"), "abs" (https://host/path#frag),   *)
(* "protorel" (//host/path#frag), "root" (/path#frag), "wiki" (/wiki/...), *)
(* "dotrel" (./file#frag), "rel" (file#frag), "httprel" (a relative file   *)
(* name that starts with "http", or "http:file"), "ftp" (ftp://host/path), *)
(* "upper" (HTTP://host/path); host is the netloc as written, path the     *)
(* path once joined to the page URL, frag a key as above.                  *)
(* A reference node is a record                                            *)
(*   [tag, cls, text, links]                                               *)
(* text: node.get_text() as characters; links: its a[href] descendants,    *)
(* each [href, label] with label the link's get_text(strip=True).          *)
(* An output is a sequence of commands [cmd, arg], "" being <<>>.          *)
(***************************************************************************)
PagePath == "/post"

EmptyHref == [form |-> "empty", host |-> "", path |-> "", frag |-> EmptyKey]
FragHref(frag) == [form |-> "frag", host |-> "", path |-> "", frag |-> frag]
AbsHref(host, path, frag) == [form |-> "abs", host |-> host, path |-> path, frag |-> frag]

Link(href, label) == [href |-> href, label |-> label]
RefNode(tag, cls, text, links) == [tag |-> tag, cls |-> cls, text |-> text, links |-> links]

\* resolved.path or "/"
PathOrRoot(path) == IF path = "" THEN "/" ELSE path

Href(form, host, path, frag) == [form |-> form, host |-> host, path |-> path, frag |-> frag]

\* The forms urljoin resolves on the page's host.
RelativeForms == {"root", "wiki", "dotrel", "rel", "httprel"}

\* urlparse(urljoin(self.page_url, href)).netloc
ResolvedHost(href) == IF href.form \in RelativeForms THEN PageHost ELSE href.host

\* _fragment_for_same_page, self.page_url being https://PageHost/PagePath
FragmentForSamePageAnyPath(href) ==
    CASE href.form = "empty" -> EmptyKey
      [] href.form = "frag" -> href.frag
      [] OTHER -> IF ResolvedHost(href) = PageHost THEN href.frag ELSE EmptyKey
FragmentForSamePage(href) ==
    CASE href.form = "empty" -> EmptyKey
      [] href.form = "frag" -> href.frag
      [] OTHER ->
           IF ResolvedHost(href) = PageHost /\ PathOrRoot(href.path) = PathOrRoot(PagePath)
             THEN href.frag
             ELSE EmptyKey

\* r"\footnote{" + text + "}" and r"\textsuperscript{" + label + "}"
FootnoteCmd(text) == <<[cmd |-> "footnote", arg |-> text]>>
SuperscriptCmd(label) == <<[cmd |-> "textsuperscript", arg |-> label]>>

\* _footnote_from_href
FootnoteFromHref(by_id, by_number, href) ==
    LET fragment == FragmentForSamePage(href)
        num == FragmentNumber(fragment)
    IN  IF fragment = EmptyKey THEN <<>>
        ELSE IF Has(by_id, fragment) THEN FootnoteCmd(by_id[fragment])
        ELSE IF num # 0 /\ Has(by_number, num) THEN FootnoteCmd(by_number[num])
        ELSE <<>>

\* str.strip("[]")
RECURSIVE StripBrackets(_)
StripBrackets(s) ==
    IF s = <<>> THEN s
    ELSE IF s[1] \in {"[", "]"} THEN StripBrackets(Tail(s))
    ELSE IF s[Len(s)] \in {"[", "]"} THEN StripBrackets(SubSeq(s, 1, Len(s) - 1))
    ELSE s

\* str.isdigit()
IsDigit(s) == s # <<>> /\ \A i \in 1..Len(s) : s[i] \in Digits

\* _footnote_from_ref's loop, from the k-th link on
RECURSIVE FootnoteFromRef(_, _, _, _)
FootnoteFromRef(by_id, by_number, links, k) ==
    IF k > Len(links) THEN <<>>
    ELSE LET rendered == FootnoteFromHref(by_id, by_number, links[k].href)
             label == StripBrackets(links[k].label)
             num == RunValue(label, 1, 0)
             note == IF rendered # <<>> THEN rendered
                     ELSE IF IsDigit(label) /\ Has(by_number, num)
                       THEN FootnoteCmd(by_number[num])
                     ELSE IF label # <<>> THEN SuperscriptCmd(label)
                     ELSE <<>>
         IN  note \o FootnoteFromRef(by_id, by_number, links, k + 1)

\* _footnote_from_text
FootnoteFromText(by_number, text) ==
    LET i == FirstDigit(text, 1)
        num == RunValue(text, i, 0)
    IN  IF i = 0 THEN <<>>
        ELSE IF Has(by_number, num) THEN FootnoteCmd(by_number[num])
        ELSE SuperscriptCmd(num)

\* convert_inline on a span.footnote-ref or a sup (lines 382-395)
ConvertInlineRef(by_id, by_number, node) ==
    IF node.tag = "sup" /\ "reference" \in node.cls
      THEN FootnoteFromRef(by_id, by_number, node.links, 1)
      ELSE FootnoteFromText(by_number, node.text)

(***************************************************************************)
(* Converter: links.  A link node is a record [href, text, plain]: text is *)
(* convert_children(node), plain is node.get_text(" ", strip=True), both   *)
(* names of the texts of the model.  The output of a link is one command   *)
(* "text" (the link affordance dropped) or "href" with its target and      *)
(* label, or the footnote it points to.                                    *)
(***************************************************************************)
LinkNode(href, text, plain) == [href |-> href, text |-> text, plain |-> plain]

\* str.strip() and collapse_ws, for the texts of the model
StripText(t) == IF t \in {" ", ""} THEN "" ELSE IF t = " https://ex.co" THEN "https://ex.co" ELSE t

\* str.lower(), for the texts and hosts of the model
LowerText(t) ==
    CASE t = "HTTPS://Ex.co/Foo" -> "https://ex.co/foo"
      [] t = "WWW.Ex.co" -> "www.ex.co"
      [] OTHER -> t

\* plain_lower.startswith("http://") or ("https://") or ("www.")
StartsWithUrlPrefix(t) ==
    t \in {"https://ex.co/foo", "https://ex.co", "http://ex.co", "www.ex.co", "www.www.ex.co"}

\* host.startswith("www."): host[4:]
StripWww(host) ==
    CASE host = "www.ex.co" -> "ex.co"
      [] host = "www.www.ex.co" -> "www.ex.co"
      [] OTHER -> host

\* latex_escape_plain, for the hosts of the model
EscapeHost(host) == IF host = "a_b.co" THEN "a\\_b.co" ELSE host

\* _compact_link_label
CompactLinkLabelKeepsWww(href) ==
    LET host == LowerText(IF href.form = "httprel" THEN "" ELSE href.host)
    IN  IF host = "" THEN "link" ELSE host
CompactLinkLabel(href) ==
    LET host == StripWww(LowerText(IF href.form = "httprel" THEN "" ELSE href.host))
    IN  IF host = "" THEN "link" ELSE host

\* href_target: the URL without its fragment
HrefTarget(href) == [href EXCEPT !.frag = EmptyKey]

\* _render_hyperlink
RenderHyperlink(href, rendered_text, plain_text) ==
    LET label == StripText(rendered_text)
        compact == EscapeHost(CompactLinkLabel(href))
    IN  <<[cmd |-> "href",
           arg |-> [target |-> HrefTarget(href),
                    label |-> IF label = "" THEN compact
                              ELSE IF StartsWithUrlPrefix(LowerText(plain_text)) THEN compact
                              ELSE label]]>>

TextCmd(text) == <<[cmd |-> "text", arg |-> text]>>

\* _convert_link
ConvertLink(by_id, by_number, node) ==
    LET plain_text == StripText(node.plain)
        href == IF node.href.form = "protorel"
                  THEN Href("abs", node.href.host, node.href.path, node.href.frag)
                  ELSE node.href
        note == FootnoteFromHref(by_id, by_number, href)
    IN  IF note # <<>> THEN note
        ELSE IF href.form \in {"wiki", "frag"} THEN TextCmd(node.text)
        ELSE IF href.form \in {"root", "dotrel"}
          THEN RenderHyperlink(Href("abs", PageHost, href.path, href.frag),
                               node.text, plain_text)
        ELSE IF href.form \in {"abs", "httprel"}
          THEN RenderHyperlink(href, node.text, plain_text)
        ELSE TextCmd(node.text)

(***************************************************************************)
(* SpecFootnotes: build_numbered_footnotes over every container of up to   *)
(* MaxNotes elements, then one call of the converter built from its        *)
(* tables.                                                                 *)
(***************************************************************************)
MaxNotes == 3

NoteElems ==
    {NoteP(NameKey("fn-a"), TRUE, 1, FALSE, 0, "tA"),
     NoteP(NameKey("fn-b"), TRUE, 1, TRUE, 1, "tB"),
     NoteP(FootnoteKey(1), TRUE, 2, FALSE, 0, "tB"),
     NoteP(EmptyKey, FALSE, 0, TRUE, 2, "tA"),
     NoteP(NameKey("fn-e"), TRUE, 3, FALSE, 0, ""),
     NoteP(EmptyKey, FALSE, 0, FALSE, 0, "tA"),
     NoteDiv(NameKey("fn-c"), TRUE, FootnoteKey(1), FootnoteAnchorKey(1), 1, "tA"),
     NoteDiv(EmptyKey, TRUE, PaddedKey("fn-d"), EmptyKey, 2, "tB"),
     NoteDiv(EmptyKey, TRUE, FootnoteKey(1), FootnoteAnchorKey(2), 1, "tB"),
     NoteDiv(NameKey("fn-f"), FALSE, EmptyKey, EmptyKey, 0, "tA"),
     NoteDiv(NameKey("fn-g"), TRUE, EmptyKey, NameKey("note"), 3, ""),
     Ordinary("p"), Ordinary("div")}

InitFootnotes ==
    /\ BookletIdle
    /\ RenderIdle
    /\ fpc = "p_loop"
    /\ container \in UNION {[1..n -> NoteElems] : n \in 0..MaxNotes}
    /\ fn_i = 0
    /\ footnotes_by_number = <<>>
    /\ footnotes_by_id = <<>>
    /\ registered = <<>>
    /\ last_call = NoCall
    /\ RerunIdle

\* The nodes convert_inline is called on.
RefNodes ==
    {RefNode("sup", {}, <<"1">>, <<>>),
     RefNode("sup", {}, <<"t", "h">>, <<>>),
     RefNode("sup", {}, <<"9">>, <<>>),
     RefNode("sup", {}, <<>>, <<>>),
     RefNode("span", {"footnote-ref"}, <<"[", "2", "]">>, <<>>),
     RefNode("sup", {}, <<"*">>, <<Link(FragHref(NameKey("fn-a")), <<"*">>)>>),
     RefNode("sup", {"reference"}, <<"[", "1", "]">>, <<>>),
     RefNode("sup", {"reference"}, <<"[", "1", "]">>,
             <<Link(FragHref(NameKey("fn-a")), <<"[", "1", "]">>)>>),
     RefNode("sup", {"reference"}, <<"[", "7", "]">>,
             <<Link(FragHref(NameKey("nope")), <<"[", "7", "]">>)>>),
     RefNode("sup", {"reference"}, <<"b">>,
             <<Link(AbsHref(PageHost, PagePath, FootnoteAnchorKey(2)), <<"b">>)>>),
     RefNode("sup", {"reference"}, <<"c">>,
             <<Link(AbsHref("other.example", PagePath, FootnoteKey(1)), <<"c">>)>>),
     RefNode("sup", {"reference"}, <<"2", "d">>,
             <<Link(FragHref(NameKey("nope")), <<"2">>),
               Link(FragHref(NameKey("nope")), <<"d">>)>>)}

\* build_web_tex: the converter is built from the tables, then called.
ConvertRef ==
    /\ fpc = "done"
    /\ last_call = NoCall
    /\ \E n \in RefNodes :
          last_call' = [fn |-> "convert_inline", arg |-> n,
                        out |-> ConvertInlineRef(footnotes_by_id, footnotes_by_number, n)]
    /\ UNCHANGED noteVars
    /\ UNCHANGED <<bookletVars, renderVars, rerunVars>>

\* The targets and the visible texts of the links convert_inline is called on.
LinkHrefs ==
    {Href("abs", h, "/foo", EmptyKey) :
        h \in {"ex.co", "www.ex.co", "WWW.Ex.co", "www.www.ex.co", "a_b.co"}}
        \cup {Href("protorel", "www.ex.co", "/foo", EmptyKey),
              Href("root", "", "/about", EmptyKey),
              Href("wiki", "", "/wiki/Foo", EmptyKey),
              Href("dotrel", "", "/next", NameKey("top")),
              Href("rel", "", "/next.html", EmptyKey),
              Href("httprel", "", "/http-equiv.html", EmptyKey),
              Href("ftp", "ex.co", "/foo", EmptyKey),
              Href("upper", "ex.co", "/foo", EmptyKey),
              Href("frag", "", "", FootnoteKey(1)),
              Href("abs", PageHost, PagePath, FootnoteAnchorKey(2)),
              Href("empty", "", "", EmptyKey)}

LinkTexts ==
    {<<"https://ex.co/foo", "https://ex.co/foo">>,
     <<"\\emph{HTTPS://Ex.co/Foo}", "HTTPS://Ex.co/Foo">>,
     <<"www.ex.co", "www.ex.co">>,
     <<" https://ex.co", " https://ex.co">>,
     <<"Example", "Example">>,
     <<" ", "">>}

LinkNodes == {LinkNode(h, t[1], t[2]) : h \in LinkHrefs, t \in LinkTexts}

ConvertA ==
    /\ fpc = "done"
    /\ last_call = NoCall
    /\ \E n \in LinkNodes :
          last_call' = [fn |-> "_convert_link", arg |-> n,
                        out |-> ConvertLink(footnotes_by_id, footnotes_by_number, n)]
    /\ UNCHANGED noteVars
    /\ UNCHANGED <<bookletVars, renderVars, rerunVars>>

NextFootnotes ==
    \/ FootnoteP
    \/ EndPLoop
    \/ FootnoteDiv
    \/ ReturnFootnotes
    \/ ConvertRef
    \/ ConvertA

SpecFootnotes == InitFootnotes /\ [][NextFootnotes]_vars

(***************************************************************************)
(* SpecSamePage: build_numbered_footnotes over a small container, then one *)
(* call of the converter's same-page test, of its footnote lookup by href  *)
(* or of _convert_link, on hrefs of every form.                            *)
(***************************************************************************)
SameMaxNotes == 2

SameNotes ==
    {NoteP(NameKey("fn-a"), TRUE, 1, FALSE, 0, "tA"),
     NoteDiv(EmptyKey, TRUE, PaddedKey("fn-d"), EmptyKey, 2, "tB"),
     Ordinary("p")}

InitSamePage ==
    /\ BookletIdle
    /\ RenderIdle
    /\ fpc = "p_loop"
    /\ container \in UNION {[1..n -> SameNotes] : n \in 0..SameMaxNotes}
    /\ fn_i = 0
    /\ footnotes_by_number = <<>>
    /\ footnotes_by_id = <<>>
    /\ registered = <<>>
    /\ last_call = NoCall
    /\ RerunIdle

SameHrefs ==
    {Href("empty", "", "", EmptyKey),
     Href("frag", "", "", EmptyKey),
     Href("frag", "", "", FootnoteKey(1)),
     Href("frag", "", "", NameKey("nope")),
     Href("abs", PageHost, PagePath, FootnoteKey(1)),
     Href("abs", PageHost, PagePath, EmptyKey),
     Href("abs", PageHost, "/other", FootnoteKey(1)),
     Href("abs", PageHost, "", FootnoteKey(1)),
     Href("abs", "other.example", PagePath, FootnoteKey(1)),
     Href("protorel", PageHost, PagePath, FootnoteAnchorKey(2)),
     Href("protorel", "other.example", PagePath, NameKey("fn-a")),
     Href("root", "", PagePath, NameKey("fn-a")),
     Href("root", "", "/about", NameKey("fn-a")),
     Href("rel", "", PagePath, NameKey("fn-d")),
     Href("dotrel", "", "/next", FootnoteKey(2)),
     Href("upper", PageHost, PagePath, FootnoteKey(1))}

FragmentCall ==
    /\ fpc = "done"
    /\ last_call = NoCall
    /\ \E h \in SameHrefs :
          last_call' = [fn |-> "_fragment_for_same_page", arg |-> h,
                        out |-> FragmentForSamePage(h)]
    /\ UNCHANGED noteVars
    /\ UNCHANGED <<bookletVars, renderVars, rerunVars>>

FootnoteHrefCall ==
    /\ fpc = "done"
    /\ last_call = NoCall
    /\ \E h \in SameHrefs :
          last_call' = [fn |-> "_footnote_from_href", arg |-> h,
                        out |-> FootnoteFromHref(footnotes_by_id, footnotes_by_number, h)]
    /\ UNCHANGED noteVars
    /\ UNCHANGED <<bookletVars, renderVars, rerunVars>>

SameLinkCall ==
    /\ fpc = "done"
    /\ last_call = NoCall
    /\ \E h \in SameHrefs :
          LET n == LinkNode(h, "Example", "Example")
          IN  last_call' = [fn |-> "_convert_link", arg |-> n,
                            out |-> ConvertLink(footnotes_by_id, footnotes_by_number, n)]
    /\ UNCHANGED noteVars
    /\ UNCHANGED <<bookletVars, renderVars, rerunVars>>

NextSamePage ==
    \/ FootnoteP
    \/ EndPLoop
    \/ FootnoteDiv
    \/ ReturnFootnotes
    \/ FragmentCall
    \/ FootnoteHrefCall
    \/ SameLinkCall

SpecSamePage == InitSamePage /\ [][NextSamePage]_vars

(***************************************************************************)
(* Escaping.  A string is a sequence of tokens: a token is one character,  *)
(* or a run of letters that stands for a word ("emph", "input", ...; no    *)
(* two words of the model join into another word of the model), or, in an  *)
(* output, the text one character was replaced by ("\\%" is \%).  "\\" is  *)
(* one backslash.                                                          *)
(***************************************************************************)
Words == {"emph", "textbf", "textit", "textsc", "input", "x"}

\* ALLOWED_COMMANDS
AllowedCommands == {"emph", "textbf", "textit", "textsc"}

\* REPLACEMENTS, for the characters of the model: no-break space, right
\* double quote, em dash, ellipsis
Replacement(ch) ==
    CASE ch = "nbsp" -> <<" ">>
      [] ch = "rdquo" -> <<"'", "'">>
      [] ch = "mdash" -> <<"-", "-", "-">>
      [] ch = "hellip" -> <<".", ".", ".">>
      [] OTHER -> <<ch>>

\* normalize_text
RECURSIVE NormalizeText(_)
NormalizeText(s) ==
    IF s = <<>> THEN <<>> ELSE Replacement(s[1]) \o NormalizeText(Tail(s))

\* LATEX_SPECIALS.get(ch, ch)
LatexSpecial(ch) ==
    CASE ch = "%" -> "\\%"
      [] ch = "$" -> "\\$"
      [] ch = "#" -> "\\#"
      [] ch = "&" -> "\\&"
      [] ch = "_" -> "\\_"
      [] ch = "{" -> "\\{"
      [] ch = "}" -> "\\}"
      [] ch = "~" -> "\\textasciitilde{}"
      [] ch = "^" -> "\\textasciicircum{}"
      [] OTHER -> ch

\* UNICODE_LATEX, then LATEX_SPECIALS
EscapeChar(ch) == IF ch = "eacute" THEN "\\'e" ELSE LatexSpecial(ch)

\* latex_escape_plain's loop
RECURSIVE EscapeChars(_)
EscapeChars(s) ==
    IF s = <<>> THEN <<>> ELSE <<EscapeChar(s[1])>> \o EscapeChars(Tail(s))

\* latex_escape_plain
LatexEscapePlain(s) == EscapeChars(NormalizeText(s))

\* re.match(r"\\([A-Za-z]+)", s[i:]): the index of the last letter token of
\* the run that starts at i + 1 (i when there is none)
RECURSIVE LetterRunEnd(_, _)
LetterRunEnd(s, i) ==
    IF i + 1 <= Len(s) /\ s[i + 1] \in Words THEN LetterRunEnd(s, i + 1) ELSE i

\* The scan for the closing brace: the k the inner while loop stops at with
\* depth 0, or 0 when it runs off the string.
RECURSIVE FindClose(_, _, _)
FindClose(s, k, depth) ==
    IF k > Len(s) THEN 0
    ELSE IF s[k] = "{" THEN FindClose(s, k + 1, depth + 1)
    ELSE IF s[k] = "}" THEN (IF depth = 1 THEN k ELSE FindClose(s, k + 1, depth - 1))
    ELSE FindClose(s, k + 1, depth)

\* latex_escape_with_commands' outer loop, from index i on
RECURSIVE EscapeFrom(_, _)
EscapeFrom(s, i) ==
    IF i > Len(s) THEN <<>>
    ELSE IF s[i] = "\\"
      THEN LET e == LetterRunEnd(s, i)
               j == e + 1
               k == IF e = i + 1 /\ s[e] \in AllowedCommands /\ j <= Len(s) /\ s[j] = "{"
                      THEN FindClose(s, j, 0)
                      ELSE 0
           IN  IF k # 0
                 THEN <<"\\", s[e], "{">> \o LatexEscapePlain(SubSeq(s, j + 1, k - 1))
                          \o <<"}">> \o EscapeFrom(s, k + 1)
                 ELSE <<"\\textbackslash{}">> \o EscapeFrom(s, i + 1)
    ELSE <<LatexSpecial(s[i])>> \o EscapeFrom(s, i + 1)

\* latex_escape_with_commands
LatexEscapeWithCommands(s) == EscapeFrom(NormalizeText(s), 1)

(***************************************************************************)
(* SpecEscape: both escaping functions on every string of up to            *)
(* MaxPlainLen characters, and of up to MaxCommandLen tokens of commands.  *)
(***************************************************************************)
MaxPlainLen == 2
MaxCommandLen == 6

PlainChars == {"\\", "{", "}", "%", "$", "#", "&", "_", "~", "^", "x", " ",
               "nbsp", "rdquo", "mdash", "hellip", "eacute"}
CommandTokens == {"\\", "{", "}", "emph", "input", "%"}

EscapeInputs ==
    UNION {[1..n -> PlainChars] : n \in 0..MaxPlainLen}
        \cup UNION {[1..n -> CommandTokens] : n \in 0..MaxCommandLen}

InitEscape ==
    /\ BookletIdle
    /\ RenderIdle
    /\ NoteIdle
    /\ RerunIdle
    /\ last_call \in {[fn |-> "pending", arg |-> s, out |-> <<>>] : s \in EscapeInputs}

EscapePlainCall ==
    /\ last_call.fn = "pending"
    /\ last_call' = [fn |-> "latex_escape_plain", arg |-> last_call.arg,
                     out |-> LatexEscapePlain(last_call.arg)]
    /\ UNCHANGED <<bookletVars, renderVars, noteVars, rerunVars>>

EscapeWithCommandsCall ==
    /\ last_call.fn = "pending"
    /\ last_call' = [fn |-> "latex_escape_with_commands", arg |-> last_call.arg,
                     out |-> LatexEscapeWithCommands(last_call.arg)]
    /\ UNCHANGED <<bookletVars, renderVars, noteVars, rerunVars>>

NextEscape ==
    \/ EscapePlainCall
    \/ EscapeWithCommandsCall

SpecEscape == InitEscape /\ [][NextEscape]_vars

(***************************************************************************)
(* parse_frontmatter (plan_utils.py).  A file is a sequence of lines, a    *)
(* line a sequence of characters without its line end; "k", "t", "v" stand *)
(* for words.  The outcome of a call is a record                           *)
(*   [raised, returned, data, read]                                        *)
(* raised: "" or which ValueError was raised; returned: a mapping was      *)
(* returned; data: that mapping; read: how many lines the call took from   *)
(* the file.                                                               *)
(***************************************************************************)
Marker == <<"-", "-", "-">>

\* str.strip()
RECURSIVE StripLine(_)
StripLine(s) ==
    IF s = <<>> THEN s
    ELSE IF s[1] = " " THEN StripLine(Tail(s))
    ELSE IF s[Len(s)] = " " THEN StripLine(SubSeq(s, 1, Len(s) - 1))
    ELSE s

\* ":" in line, and line.split(":", 1)
HasColon(s) == \E i \in 1..Len(s) : s[i] = ":"
FirstColon(s) == CHOOSE i \in 1..Len(s) : s[i] = ":" /\ \A j \in 1..(i - 1) : s[j] # ":"
KeyOf(s) == StripLine(SubSeq(s, 1, FirstColon(s) - 1))

\* a value in matching quotes loses them (lines 70-72)
Unquote(v) ==
    IF Len(v) >= 2 /\ v[1] = v[Len(v)] /\ v[1] \in {"\"", "'"}
      THEN SubSeq(v, 2, Len(v) - 1)
      ELSE v
ValueOf(s) == Unquote(StripLine(SubSeq(s, FirstColon(s) + 1, Len(s))))

Raise(why, read) == [raised |-> why, returned |-> FALSE, data |-> <<>>, read |-> read]

\* "for line in handle" from the i-th line on (lines 60-75)
RECURSIVE ParseLinesLenient(_, _, _)
ParseLinesLenient(lines, i, data) ==
    IF i > Len(lines)
      THEN [raised |-> "", returned |-> TRUE, data |-> data, read |-> Len(lines)]
    ELSE LET stripped == StripLine(lines[i])
         IN  IF stripped = Marker
               THEN [raised |-> "", returned |-> TRUE, data |-> data, read |-> i]
             ELSE IF stripped = <<>> \/ stripped[1] = "#"
               THEN ParseLinesLenient(lines, i + 1, data)
             ELSE IF ~HasColon(lines[i]) THEN ParseLinesLenient(lines, i + 1, data)
             ELSE ParseLinesLenient(lines, i + 1, Put(data, KeyOf(lines[i]), ValueOf(lines[i])))

RECURSIVE ParseLines(_, _, _)
ParseLines(lines, i, data) ==
    IF i > Len(lines) THEN Raise("must end", Len(lines))
    ELSE LET stripped == StripLine(lines[i])
         IN  IF stripped = Marker
               THEN [raised |-> "", returned |-> TRUE, data |-> data, read |-> i]
             ELSE IF stripped = <<>> \/ stripped[1] = "#"
               THEN ParseLines(lines, i + 1, data)
             ELSE IF ~HasColon(lines[i]) THEN Raise("invalid line", i)
             ELSE ParseLines(lines, i + 1, Put(data, KeyOf(lines[i]), ValueOf(lines[i])))

\* parse_frontmatter; readline() on an empty file returns ""
ParseFrontmatter(lines) ==
    IF lines = <<>> THEN Raise("must start", 0)
    ELSE IF StripLine(lines[1]) # Marker THEN Raise("must start", 1)
    ELSE ParseLines(lines, 2, <<>>)

(***************************************************************************)
(* SpecFrontmatter: parse_frontmatter on every file of up to MaxLines      *)
(* lines.                                                                  *)
(***************************************************************************)
MaxLines == 4

FileLines ==
    {Marker,
     <<" ", "-", "-", "-", " ">>,
     <<>>,
     <<"#", " ", "t">>,
     <<"#", "k", ":", "v">>,
     <<"k", ":", " ", "v">>,
     <<"t", ":", " ", "'", "v", ":", "'">>,
     <<"k", ":">>,
     <<"t", " ", "v">>,
     <<"-", "-", "-", "-">>}

InitFrontmatter ==
    /\ BookletIdle
    /\ RenderIdle
    /\ NoteIdle
    /\ RerunIdle
    /\ last_call \in {[fn |-> "pending", arg |-> f, out |-> <<>>] :
                        f \in UNION {[1..n -> FileLines] : n \in 0..MaxLines}}

ParseFrontmatterCall ==
    /\ last_call.fn = "pending"
    /\ last_call' = [fn |-> "parse_frontmatter", arg |-> last_call.arg,
                     out |-> ParseFrontmatter(last_call.arg)]
    /\ UNCHANGED <<bookletVars, renderVars, noteVars, rerunVars>>

NextFrontmatter == ParseFrontmatterCall

SpecFrontmatter == InitFrontmatter /\ [][NextFrontmatter]_vars

(***************************************************************************)
(* Flow packing: claims C1, C2 (checked under SpecFlow).                   *)
(***************************************************************************)
RECURSIVE SumWords(_)
SumWords(items) ==
    IF items = <<>> THEN 0 ELSE items[1].words + SumWords(Tail(items))

\* The chunks flushed so far.
Chunks == {k \in 1..Len(parts) : parts[k].kind \in {"flow", "hybridcols"}}

\* C1: with hybrid enabled, every flushed chunk holds at least one block and
\* is a hybridcols region if and only if (blocks >= 2 and words >= 110) or
\* words >= 180, blocks and words being the totals of the blocks in it.
C1_HybridDecision ==
    hybrid =>
        \A k \in Chunks :
            LET blocks == Len(parts[k].items)
                words == SumWords(parts[k].items)
            IN  /\ blocks >= 1
                /\ parts[k].kind = "hybridcols" <=>
                       ((blocks >= 2 /\ words >= 110) \/ words >= 180)

\* C1 witness: the pass has returned and two blocks of 110 words together
\* were flushed as hybridcols.
C1_Witness ==
    /\ hybrid
    /\ rpc = "done"
    /\ \E k \in Chunks :
          /\ parts[k].kind = "hybridcols"
          /\ Len(parts[k].items) = 2
          /\ SumWords(parts[k].items) = 110

\* C2: with hybrid disabled no flush emits a hybridcols region: every chunk
\* is appended as ordinary single-column flow.
C2_NoHybridWhenDisabled ==
    ~hybrid => \A k \in 1..Len(parts) : parts[k].kind # "hybridcols"

\* C2 witness: hybrid is off and a chunk of 3 blocks and at least 180 words
\* was flushed as plain flow.
C2_Witness ==
    /\ ~hybrid
    /\ \E k \in Chunks :
          /\ parts[k].kind = "flow"
          /\ Len(parts[k].items) = 3
          /\ SumWords(parts[k].items) >= 180

(***************************************************************************)
(* Composite regions: claim C7 (checked under SpecTree).                   *)
(***************************************************************************)
\* A recognized composite root, as lines 1104 and 1113 recognize it.
IsCompositeRoot(a) ==
    "conversation" \in a.cls \/ {"admonition", "admonition-content"} \subseteq a.cls

InsideComposite(anc) == \E k \in 1..Len(anc) : IsCompositeRoot(anc[k])

\* C7: a node with a recognized composite root among its ancestors is never
\* emitted as a block of its own, neither as a structural block nor as a
\* flow block (flushed or still buffered).
C7_NothingInsideCompositeEmitted ==
    /\ \A k \in 1..Len(parts) :
          /\ ~InsideComposite(parts[k].anc)
          /\ \A j \in 1..Len(parts[k].items) :
                parts[k].kind \in {"flow", "hybridcols"} =>
                    ~InsideComposite(parts[k].items[j].anc)
    /\ \A j \in 1..Len(flow_parts) : ~InsideComposite(flow_parts[j].anc)

(***************************************************************************)
(* Image store: claims C8 - C10 (checked under SpecImage).                 *)
(***************************************************************************)
Calls == 1..Len(fetch_log)

\* The call went as far as _download.
Downloaded(e) == Len(e.after.requests) = Len(e.before.requests) + 1

RECURSIVE Count(_, _)
Count(seq, x) ==
    IF seq = <<>> THEN 0
    ELSE (IF seq[1] = x THEN 1 ELSE 0) + Count(Tail(seq), x)

\* C8 as claimed: any two fetches of images whose sources resolve to the same
\* URL return the same asset path, and that URL is downloaded exactly once.
C8_Original ==
    \A i \in Calls : \A j \in Calls :
        (i < j /\ fetch_log[i].url # EmptySrc /\ fetch_log[i].url = fetch_log[j].url) =>
            /\ fetch_log[i].rel = fetch_log[j].rel
            /\ Count(store.requests, fetch_log[i].url) = 1

\* C8 amended: two fetches for the same resolved URL that both return an
\* asset return the same path; once a fetch has returned an asset for a URL,
\* no later fetch downloads that URL again, so every URL is written at most
\* once.  (A fetch that is filtered out, fails or is skipped returns no asset
\* and caches nothing; the next fetch of that URL downloads again.)
C8_CachedAssetIsReused ==
    \A i \in Calls : \A j \in Calls :
        (i < j /\ fetch_log[i].url = fetch_log[j].url /\ fetch_log[i].rel # NoAsset) =>
            /\ fetch_log[j].rel # NoAsset => fetch_log[j].rel = fetch_log[i].rel
            /\ ~Downloaded(fetch_log[j])
            /\ Cardinality({f \in store.files : f.url = fetch_log[i].url}) = 1

\* C8 witness: two image nodes with different source attributes, the same
\* resolved URL, the same asset path and one download.
C8_Witness ==
    \E i \in Calls : \E j \in Calls :
        /\ i < j
        /\ fetch_log[i].img # fetch_log[j].img
        /\ fetch_log[i].url = fetch_log[j].url
        /\ fetch_log[i].rel # NoAsset
        /\ fetch_log[j].rel = fetch_log[i].rel
        /\ Count(store.requests, fetch_log[i].url) = 1

\* The answers with which a download that was made cannot yield an asset:
\* the GET failed, the data URI has no comma or bad base64, the webp
\* conversion failed or PIL is missing, the content is SVG.
FailedImage(e) ==
    /\ Downloaded(e)
    /\ \/ e.url.form = "data" /\ e.url.enc \in {"nocomma", "badbase64"}
       \/ e.url.form # "data" /\ e.env.get = "fail"
       \/ e.url.form # "data" /\ e.env.get = "ok" /\ e.env.ctype = "image/webp"
              /\ e.env.webp \in {"nopil", "fail"}
       \/ e.url.form # "data" /\ e.env.get = "ok" /\ e.env.ctype = "image/svg+xml"

\* C9: no fetch leaves render_blocks by an exception, and a fetch whose
\* download, decoding or conversion fails or whose format is unsupported
\* returns no asset and leaves the cache and the counter as they were; the
\* pass is still running (or has returned) afterwards.
C9_FailedImageNeverAborts ==
    /\ rpc \in {"walk", "done"}
    /\ \A i \in Calls :
          FailedImage(fetch_log[i]) =>
              /\ fetch_log[i].rel = NoAsset
              /\ fetch_log[i].after.cache = fetch_log[i].before.cache
              /\ fetch_log[i].after.counter = fetch_log[i].before.counter
              /\ fetch_log[i].after.files = fetch_log[i].before.files

\* C9 witness: the pass has returned, an image's GET had failed, and a node
\* visited after it was rendered.
C9_Witness ==
    /\ rpc = "done"
    /\ \E i \in Calls :
          /\ FailedImage(fetch_log[i])
          /\ fetch_log[i].env.get = "fail"
          /\ \E k \in 1..Len(parts) :
                \/ parts[k].id > fetch_log[i].id
                \/ \E j \in 1..Len(parts[k].items) :
                      parts[k].kind = "flow" /\ parts[k].items[j].id > fetch_log[i].id

\* The declared values of the model that are at most 80.
DeclaredAtMost80(value) ==
    value.present /\ value.text \in {<<"0">>, <<"1", "6">>, <<"8", "0", "p", "x">>}

\* C10: an image whose declared width and height are both present and both
\* at most 80 produces no image block.
C10_SmallImagesProduceNoBlock ==
    \A k \in 1..Len(parts) :
        parts[k].kind = "image" =>
            ~(DeclaredAtMost80(parts[k].items[1].width)
                /\ DeclaredAtMost80(parts[k].items[1].height))

\* The image has a class name with a decorative token.
HasDecorativeClass(img) == \E c \in img.cls : ClassHasDecorativeToken(c)

\* C11: an image whose class names signal a decorative image is rejected by
\* the inclusion filter unless its resolved URL is on the trusted avatar
\* host, in which case it is included (not rejected by the filter).
C11_DecorativeClassUnlessTrusted ==
    \A i \in Calls :
        HasDecorativeClass(fetch_log[i].img) =>
            (fetch_log[i].why = "filtered" <=> ~SrcHasTrustedHost(fetch_log[i].url))

(***************************************************************************)
(* Footnote tables: claims C12, C13 (checked under SpecFootnotes).         *)
(***************************************************************************)
\* The keys of footnotes_by_id under which a registered body is known.
Aliases(r) ==
    {FootnoteKey(r.num), FootnoteAnchorKey(r.num)}
        \cup {CollapseWs(r.ids[j]) : j \in {i \in 1..Len(r.ids) : r.ids[i] # EmptyKey}}

\* C12: once build_numbered_footnotes has returned, every alias of a
\* registered footnote body (its number, "footnote-N", "footnote-anchor-N",
\* its element id, its explicit anchor ids) is in the tables and all of them
\* yield one and the same text, and footnotes_by_id["footnote-N"] and
\* footnotes_by_id["footnote-anchor-N"] equal footnotes_by_number[N] for
\* every registered N.
C12_AliasesConverge ==
    fpc = "done" =>
        /\ \A i \in 1..Len(registered) :
              LET r == registered[i]
              IN  /\ Has(footnotes_by_number, r.num)
                  /\ \A a \in Aliases(r) :
                        /\ Has(footnotes_by_id, a)
                        /\ footnotes_by_id[a] = footnotes_by_number[r.num]
        /\ \A N \in DOMAIN footnotes_by_number :
              /\ footnotes_by_id[FootnoteKey(N)] = footnotes_by_number[N]
              /\ footnotes_by_id[FootnoteAnchorKey(N)] = footnotes_by_number[N]

\* C13: once build_numbered_footnotes has returned, no p.footnote and no
\* div.footnote is left in the container, registered or not.
C13_NoFootnoteElementRemains ==
    fpc = "done" =>
        \A k \in 1..Len(container) :
            (container[k].footnote /\ container[k].tag \in {"p", "div"}) =>
                ~container[k].present

\* C13 witness: the function has returned on a container with a footnote
\* that was registered, one that was not, and an ordinary element, which is
\* the only one left.
C13_Witness ==
    /\ fpc = "done"
    /\ Len(container) = 3
    /\ Len(registered) = 1
    /\ Cardinality({k \in 1..3 : container[k].footnote}) = 2
    /\ \E k \in 1..3 : ~container[k].footnote /\ container[k].present

(***************************************************************************)
(* Footnote references: claim C14 (checked under SpecFootnotes).           *)
(***************************************************************************)
\* The links of a node whose href resolves to a known footnote anchor.
ResolvingLinks(n) ==
    {k \in 1..Len(n.links) :
        FootnoteFromHref(footnotes_by_id, footnotes_by_number, n.links[k].href) # <<>>}

\* The node's visible text is a bare number (brackets aside) that is a known
\* footnote number.
IsKnownBareNumber(n) ==
    /\ IsDigit(StripBrackets(n.text))
    /\ Has(footnotes_by_number, RunValue(StripBrackets(n.text), 1, 0))

\* C14: for a superscript / footnote-reference node, convert_inline emits the
\* resolved footnote body when a contained link resolves to a known footnote
\* anchor, else the footnote body when the visible text is a bare known
\* footnote number, else a superscript literal; whenever the node's visible
\* text is not empty, the output is not empty.
C14_ReferenceNeverDropped ==
    last_call.fn = "convert_inline" =>
        LET n == last_call.arg
            out == last_call.out
        IN  /\ n.text # <<>> => out # <<>>
            /\ \A k \in ResolvingLinks(n) :
                  \E j \in 1..Len(out) :
                      <<out[j]>> = FootnoteFromHref(footnotes_by_id, footnotes_by_number,
                                                    n.links[k].href)
            /\ (ResolvingLinks(n) = {} /\ IsKnownBareNumber(n)) =>
                  out = FootnoteCmd(footnotes_by_number[RunValue(StripBrackets(n.text), 1, 0)])

(***************************************************************************)
(* Link labels: claim C15 (checked under SpecFootnotes).                   *)
(***************************************************************************)
\* The last call rendered a link as a hyperlink whose visible text begins,
\* in any case, with "http://", "https://" or "www.".
UrlTextHyperlink ==
    /\ last_call.fn = "_convert_link"
    /\ last_call.out[1].cmd = "href"
    /\ last_call.arg.plain \in {"https://ex.co/foo", "HTTPS://Ex.co/Foo", "www.ex.co",
                                " https://ex.co"}

\* The host of the model's targets, lower-cased, without one leading "www.",
\* as it is printed.
CompactHost(host) ==
    CASE host \in {"ex.co", "www.ex.co", "WWW.Ex.co"} -> "ex.co"
      [] host = "www.www.ex.co" -> "www.ex.co"
      [] host = "a_b.co" -> "a\\_b.co"
      [] OTHER -> host

\* C15 as claimed: the label of such a hyperlink is the compact host of the
\* link target, and never the raw URL text.
C15_Original ==
    UrlTextHyperlink =>
        /\ last_call.out[1].arg.label = CompactHost(last_call.out[1].arg.target.host)
        /\ last_call.out[1].arg.label # last_call.arg.text

\* C15 amended: the label of such a hyperlink is computed from the link
\* target alone: its host, lower-cased and without one leading "www.", or
\* the word "link" when the target has no host.
C15_LabelIsCompactHost ==
    UrlTextHyperlink =>
        LET out == last_call.out[1].arg
        IN  out.label = IF out.target.host = "" THEN "link"
                        ELSE CompactHost(out.target.host)

\* C15 witness: the link with visible text "https://ex.co/foo" and target
\* https://www.ex.co/foo was rendered with the label "ex.co".
C15_Witness ==
    /\ UrlTextHyperlink
    /\ last_call.arg.plain = "https://ex.co/foo"
    /\ last_call.arg.href = Href("abs", "www.ex.co", "/foo", EmptyKey)
    /\ last_call.out[1].arg.label = "ex.co"

(***************************************************************************)
(* Escaping: claims C16, C17 (checked under SpecEscape).                   *)
(***************************************************************************)
\* C16: in the output of latex_escape_with_commands a backslash only stands
\* at the head of a whitelisted command (emph, textbf, textit, textsc); every
\* other backslash of the input, at any depth, has become a literal
\* backslash.
C16_OnlyWhitelistedCommandsSurvive ==
    last_call.fn = "latex_escape_with_commands" =>
        \A i \in 1..Len(last_call.out) :
            last_call.out[i] = "\\" =>
                /\ i < Len(last_call.out)
                /\ last_call.out[i + 1] \in AllowedCommands

\* The characters that are reserved in the markup, and the smart punctuation
\* of the model.
ReservedChars == {"%", "$", "#", "&", "_", "{", "}", "~", "^", "\\"}
SmartChars == {"nbsp", "rdquo", "mdash", "hellip"}

\* C17: the output of latex_escape_plain holds no smart punctuation and no
\* reserved character of the markup (%, $, #, &, _, {, }, ~, ^, backslash)
\* as it stood in the input: each one has been replaced by its literal-safe
\* equivalent.
C17_PlainEscapesEverything ==
    last_call.fn = "latex_escape_plain" =>
        \A i \in 1..Len(last_call.out) :
            last_call.out[i] \notin ReservedChars \cup SmartChars

(***************************************************************************)
(* Final flush: claim C18 (checked under SpecStruct).                      *)
(***************************************************************************)
\* The ids of the flow blocks in the pending buffer.
BufferedIds == {flow_parts[j].id : j \in 1..Len(flow_parts)}

\* How often the flow block of node id stands in the chunks of parts.
RECURSIVE EmittedCount(_, _)
EmittedCount(ps, id) ==
    IF ps = <<>> THEN 0
    ELSE (IF ps[1].kind \in {"flow", "hybridcols"}
            THEN Cardinality({j \in 1..Len(ps[1].items) : ps[1].items[j].id = id})
            ELSE 0)
         + EmittedCount(Tail(ps), id)

\* C18: when render_blocks returns the flow buffer is empty, and every flow
\* block pushed during the pass has been emitted exactly once: a block stays
\* in the buffer until a flush emits it, an emitted block stays emitted, and
\* no block is ever in the buffer and in parts, or in parts twice.
C18_FinalFlushEmitsEveryBlockOnce ==
    /\ [](rpc = "done" => (flow_parts = <<>> /\ flow_words = 0 /\ flow_blocks = 0))
    /\ [](\A id \in 1..nvisited :
              /\ EmittedCount(parts, id) <= 1
              /\ id \in BufferedIds => EmittedCount(parts, id) = 0
              /\ Cardinality({j \in 1..Len(flow_parts) : flow_parts[j].id = id}) <= 1)
    /\ [][\A id \in 1..nvisited :
              /\ id \in BufferedIds => (id \in BufferedIds' \/ EmittedCount(parts', id) = 1)
              /\ EmittedCount(parts, id) = 1 => EmittedCount(parts', id) = 1]_vars

\* C18 witness: the pass has returned on a document that ends with two flow
\* blocks after a structural block, and its last part is their chunk.
C18_Witness ==
    /\ rpc = "done"
    /\ flow_parts = <<>>
    /\ Len(parts) = 2
    /\ parts[1].kind \notin {"flow", "hybridcols"}
    /\ parts[2].kind \in {"flow", "hybridcols"}
    /\ Len(parts[2].items) = 2
    /\ parts[2].items[2].id = nvisited

VisitsNode == Len(tape') = Len(tape) + 1 /\ tape'[Len(tape')].op = "visit"

\* A heading, code block, composite root or rule with ancestors anc that the
\* pass handles: it is not inside a composite div, and a pre is not nested
\* in a pre.
HandledStructural(n, anc) ==
    IF IsCompositeRoot(n)
      THEN ~(\E k \in 1..Len(anc) : anc[k].tag = "div" /\ anc[k].cls = n.cls)
      ELSE /\ ~(\E k \in 1..Len(anc) : anc[k].tag = "div" /\ IsCompositeRoot(anc[k]))
           /\ \/ n.tag \in {"h1", "h2", "h3", "h4", "hr"}
              \/ n.tag = "pre" /\ ~HasParent(anc, {"pre", "code"})

\* An image or a figure with ancestors anc that is not part of a figure or
\* of a composite div.
HandledMedia(n, anc) ==
    /\ n.tag \in {"img", "figure"}
    /\ ~IsCompositeRoot(n)
    /\ ~(\E k \in 1..Len(anc) : anc[k].tag = "div" /\ IsCompositeRoot(anc[k]))
    /\ ~HasParent(anc, {"figure"})

\* The step flushed the buffer before the visited node's own output: the
\* buffer is empty afterwards, what it held is one chunk of parts, and
\* everything appended after that chunk is the node's own output.
FlushedFirst ==
    LET base == Len(parts) + (IF flow_parts = <<>> THEN 0 ELSE 1)
    IN  /\ flow_parts' = <<>>
        /\ Len(parts') >= base
        /\ SubSeq(parts', 1, Len(parts)) = parts
        /\ flow_parts # <<>> =>
              /\ parts'[base].kind \in {"flow", "hybridcols"}
              /\ parts'[base].items = flow_parts
        /\ \A k \in (base + 1)..Len(parts') :
              /\ parts'[k].kind \notin {"flow", "hybridcols"}
              /\ parts'[k].id = nvisited'

\* C20 as claimed: every handled structural node (heading, figure or image,
\* code block, composite region, rule) flushes the buffer before its own
\* output and never joins it, whether or not it produces output and whether
\* or not an image store is supplied.
C20_Original ==
    [][VisitsNode =>
          LET n == tape'[Len(tape')].n
          IN  (HandledStructural(n, stack) \/ HandledMedia(n, stack)) => FlushedFirst]_vars

\* C20 amended: every handled heading, code block, composite region and
\* rule, and, when an image store is supplied, every handled figure and
\* image, flushes the buffer before its own output and never joins it,
\* whether or not it produces output; without an image store a figure or an
\* image is skipped and leaves the buffer and parts as they are.
C20_StructuralNodesFlush ==
    [][VisitsNode =>
          LET n == tape'[Len(tape')].n
          IN  /\ (HandledStructural(n, stack) \/ (with_store /\ HandledMedia(n, stack)))
                    => FlushedFirst
              /\ (~with_store /\ HandledMedia(n, stack))
                    => (flow_parts' = flow_parts /\ parts' = parts)]_vars

\* C20 witness: with an image store, an image whose download failed stands
\* between two paragraphs: the first is a chunk of its own in parts, the
\* second is alone in the buffer.
C20_Witness ==
    /\ with_store
    /\ Len(tape) = 3
    /\ tape[2].n.tag = "img"
    /\ tape[2].envs = <<EnvFail>>
    /\ Len(parts) = 1
    /\ parts[1].kind \in {"flow", "hybridcols"}
    /\ Len(parts[1].items) = 1
    /\ Len(flow_parts) = 1
    /\ flow_parts[1].id = 3

(***************************************************************************)
(* Document order: claim C21 (checked under SpecStruct).                   *)
(***************************************************************************)
\* The elements the pass has visited, in document order, read off the tape:
\* the i-th entry is the node with id i and its ancestors.
RECURSIVE TapeWalk(_, _, _, _)
TapeWalk(t, j, id, anc) ==
    IF j > Len(t) THEN <<>>
    ELSE IF t[j].op = "visit"
      THEN <<[id |-> id + 1, n |-> t[j].n, anc |-> anc]>>
           \o TapeWalk(t, j + 1, id + 1,
                       IF t[j].n.tag \in VoidTags THEN anc
                       ELSE Append(anc, [tag |-> t[j].n.tag, cls |-> t[j].n.cls,
                                         id |-> id + 1]))
      ELSE TapeWalk(t, j + 1, id, SubSeq(anc, 1, Len(anc) - 1))

Visited == TapeWalk(tape, 1, 0, <<>>)

\* node.find_all("img") of the figure with id f: the img elements below it,
\* in document order.
ImgsBelow(f) ==
    SelectSeq(Visited, LAMBDA v : v.n.tag = "img" /\ \E k \in 1..Len(v.anc) : v.anc[k].id = f)

\* The tree on the tape is a tree: the images a figure was visited with are
\* the img elements found among its descendants.
FiguresHoldTheirImages ==
    \A f \in 1..Len(Visited) :
        Visited[f].n.tag = "figure" =>
            /\ Len(ImgsBelow(f)) = Len(Visited[f].n.imgs)
            /\ \A k \in 1..Len(ImgsBelow(f)) : ImgsBelow(f)[k].n.img = Visited[f].n.imgs[k]

\* The index, among the images of its figure, of the image that the j-th
\* entry of parts shows: the m-th image block of a figure is the m-th fetch
\* of the figure that returned a path, and that fetch names the index.
\* PartOrigin: the id of the element that the j-th entry of parts was
\* rendered from; an image rendered by a figure's loop comes from an img
\* element below the figure.
FigureImageIndex(j) ==
    LET f    == parts[j].id
        m    == Cardinality({i \in 1..j : parts[i].kind = "image" /\ parts[i].id = f})
        hits == SelectSeq(fetch_log, LAMBDA e : e.id = f /\ e.rel # NoAsset)
    IN  hits[m].idx

PartOrigin(j) ==
    LET f == parts[j].id
    IN  IF parts[j].kind = "image" /\ Visited[f].n.tag = "figure"
          THEN ImgsBelow(f)[FigureImageIndex(j)].id
          ELSE f

\* The elements the outputs in parts come from, in output order; a chunk
\* contributes the elements of its flow blocks.
RECURSIVE Origins(_)
Origins(j) ==
    IF j > Len(parts) THEN <<>>
    ELSE (IF parts[j].kind \in {"flow", "hybridcols"}
            THEN [i \in 1..Len(parts[j].items) |-> parts[j].items[i].id]
            ELSE <<PartOrigin(j)>>)
         \o Origins(j + 1)

\* C21: the list render_blocks returns retains document order: of two
\* outputs that come from different elements, the output of the element
\* that is earlier in the document stands earlier in the list.
C21_DocumentOrder ==
    (rpc = "done" /\ FiguresHoldTheirImages) =>
        LET o == Origins(1)
        IN  \A i, j \in 1..Len(o) : i < j => o[i] <= o[j]

(***************************************************************************)
(* Heading levels: claim C22 (checked under SpecHeadings).                 *)
(***************************************************************************)
PrintLevels == {"section", "subsection", "subsubsection"}

\* The sectioning commands in parts.
LevelParts == {j \in 1..Len(parts) : parts[j].kind \in PrintLevels}

\* C22 as claimed: the headings of a document are printed on two levels.
C22_Original ==
    /\ Cardinality({parts[j].kind : j \in LevelParts}) <= 2
    /\ \A j \in LevelParts :
          Visited[parts[j].id].n.tag \in {"h1", "h2"} => parts[j].kind = "section"

\* C22 amended: headings of levels 1-4 are printed on three levels: h1 and
\* h2 both as \section*, h3 as \subsection*, h4 as \subsubsection*; and a
\* heading with a text that does not start with "Footnotes for Part" gets
\* exactly one sectioning command.
C22_HeadingLevels ==
    /\ \A j \in LevelParts :
          LET tag == Visited[parts[j].id].n.tag
          IN  /\ tag \in {"h1", "h2"} => parts[j].kind = "section"
              /\ tag = "h3" => parts[j].kind = "subsection"
              /\ tag = "h4" => parts[j].kind = "subsubsection"
              /\ tag \in {"h1", "h2", "h3", "h4"}
    /\ \A i \in 1..Len(Visited) :
          LET n == Visited[i].n
          IN  Cardinality({j \in LevelParts : parts[j].id = i})
                = IF n.tag \in {"h1", "h2", "h3", "h4"} /\ n.text /\ ~n.fnhead THEN 1 ELSE 0

\* C22 witness: the pass has returned on h1, h2, h4 with text: two \section*
\* and one \subsubsection*.
C22_Witness ==
    /\ rpc = "done"
    /\ Len(Visited) = 3
    /\ Visited[1].n.tag = "h1" /\ Visited[2].n.tag = "h2" /\ Visited[3].n.tag = "h4"
    /\ Cardinality(LevelParts) = 3
    /\ {parts[j].kind : j \in LevelParts} = {"section", "subsubsection"}

(***************************************************************************)
(* Footnote numbers: claim C23 (checked under SpecFootnotes).              *)
(***************************************************************************)
\* The explicit number of a footnote element: the number in the number span
\* of a p, the visible number of the number link of a div (0: none).
ExplicitNumber(e) ==
    IF e.tag = "p" THEN (IF e.span THEN e.span_num ELSE 0)
    ELSE (IF e.link THEN e.label_num ELSE 0)

\* Its pattern-derived number: the leading [N] of a p, the N of the number
\* link's fragment footnote(-anchor)?-N of a div (0: none).
PatternNumber(e) ==
    IF e.tag = "p" THEN (IF e.has_prefix THEN e.prefix ELSE 0)
    ELSE (IF e.link THEN FragmentNumber(e.frag) ELSE 0)

\* C23: a registered footnote whose element carries an explicit number and
\* a different pattern-derived number is registered under the explicit one.
C23_ExplicitNumberWins ==
    \A i \in 1..Len(registered) :
        LET e == container[registered[i].elem]
        IN  (ExplicitNumber(e) # 0 /\ PatternNumber(e) # 0
               /\ ExplicitNumber(e) # PatternNumber(e))
                => registered[i].num = ExplicitNumber(e)

(***************************************************************************)
(* Figure captions: claim C24 (checked under SpecFigure).                  *)
(***************************************************************************)
\* The image blocks in parts that the figure with id f produced.
FigureBlocks(f) == {j \in 1..Len(parts) : parts[j].kind = "image" /\ parts[j].id = f}

\* C24: for every figure with a caption that the pass has handled, the
\* caption stands under the figure's last image and under no other, and if
\* the figure produced an image block at all, exactly one of its blocks
\* carries the caption.
C24_CaptionOnLastImageOnce ==
    \A f \in 1..Len(Visited) :
        (Visited[f].n.tag = "figure" /\ Visited[f].n.caption) =>
            /\ \A j \in FigureBlocks(f) :
                  parts[j].caption = "caption"
                      => FigureImageIndex(j) = Len(Visited[f].n.imgs)
            /\ FigureBlocks(f) # {} =>
                  Cardinality({j \in FigureBlocks(f) : parts[j].caption = "caption"}) = 1

(***************************************************************************)
(* Same-page fragments: claim C25 (checked under SpecSamePage).            *)
(***************************************************************************)
\* urlparse(urljoin(page_url, href)): a bare fragment and an empty href
\* resolve to the page itself, a relative reference to the page's host.
ResolvedUrl(href) ==
    CASE href.form \in {"empty", "frag"} -> Href("abs", PageHost, PagePath, href.frag)
      [] href.form \in RelativeForms -> Href("abs", PageHost, href.path, href.frag)
      [] OTHER -> Href("abs", href.host, href.path, href.frag)

\* The resolved URL has the page's host and path and carries a fragment.
IsSamePageCandidate(href) ==
    LET u == ResolvedUrl(href)
    IN  /\ u.host = PageHost
        /\ PathOrRoot(u.path) = PathOrRoot(PagePath)
        /\ u.frag # EmptyKey

\* C25: _fragment_for_same_page returns the fragment of the resolved URL
\* exactly when that URL has the page's host and path and a fragment, and
\* "" otherwise; an href that is no candidate never yields a footnote, and
\* _convert_link renders it as an ordinary link (its text, or a hyperlink).
C25_SamePageCandidate ==
    /\ last_call.fn = "_fragment_for_same_page" =>
          last_call.out = IF IsSamePageCandidate(last_call.arg)
                            THEN ResolvedUrl(last_call.arg).frag ELSE EmptyKey
    /\ (last_call.fn = "_footnote_from_href" /\ ~IsSamePageCandidate(last_call.arg)) =>
          last_call.out = <<>>
    /\ (last_call.fn = "_convert_link" /\ ~IsSamePageCandidate(last_call.arg.href)) =>
          /\ Len(last_call.out) = 1
          /\ last_call.out[1].cmd \in {"text", "href"}

\* C25 witness: the footnote with id fn-a is registered, and the href
\* /post#fn-a, resolved to the page itself, returned it.
C25_Witness ==
    /\ last_call.fn = "_footnote_from_href"
    /\ last_call.arg = Href("root", "", PagePath, NameKey("fn-a"))
    /\ IsSamePageCandidate(last_call.arg)
    /\ last_call.out = FootnoteCmd("tA")

(***************************************************************************)
(* Asset formats: claim C26 (checked under SpecImage).                     *)
(***************************************************************************)
\* The format in the stated priority order: the content-type table, then an
\* XML+SVG content type, then the URL's file suffix, then the default
\* raster extension; a webp is converted.
StatedFormat(e) ==
    LET ctype == Download(e.url, e.env).ctype
        ext   == IF ContentTypeImageExt(ctype) # "" THEN ContentTypeImageExt(ctype)
                 ELSE IF ctype = "image/svg+xml" THEN ".svg"
                 ELSE IF UrlSuffix(e.url) # "" THEN UrlSuffix(e.url)
                 ELSE ".jpg"
    IN  IF ext = ".webp" THEN ConvertWebp(e.env) ELSE ext

\* C26: every fetch that downloaded data writes an asset file exactly when
\* the format inferred in the stated order, after conversion, is .jpg,
\* .jpeg, .png or .pdf, and then under that extension; an image of any other
\* format is skipped.
C26_FormatDecidesWriting ==
    \A c \in Calls :
        LET e == fetch_log[c]
        IN  (e.why \in {"written", "convert", "unsupported"}) =>
                /\ e.why = "written" <=> StatedFormat(e) \in LatexImageExts
                /\ e.why = "written" => e.rel.ext = StatedFormat(e)

(***************************************************************************)
(* Asset numbering: claim C27 (checked under SpecImage).                   *)
(***************************************************************************)
\* C27: the fetches of one store follow each other from the new store; no
\* fetch lowers the counter or removes or replaces a written file; after
\* every fetch the counter is the number of cache entries and of written
\* files, every cache entry names image-NNN with 1 <= NNN <= counter, and
\* two cache entries with different URLs name different asset paths.
C27_CounterAndCacheInjective ==
    /\ \A c \in Calls :
          LET e == fetch_log[c]
          IN  /\ e.before = IF c = 1 THEN NewStore ELSE fetch_log[c - 1].after
              /\ e.after.counter >= e.before.counter
              /\ e.before.files \subseteq e.after.files
              /\ e.after.counter = Len(e.after.cache)
              /\ Cardinality(e.after.files) = e.after.counter
              /\ \A i \in 1..Len(e.after.cache) :
                    /\ e.after.cache[i].rel.n \in 1..e.after.counter
                    /\ \A j \in 1..Len(e.after.cache) :
                          e.after.cache[i].url # e.after.cache[j].url
                              => e.after.cache[i].rel # e.after.cache[j].rel
    /\ store = IF fetch_log = <<>> THEN NewStore ELSE fetch_log[Len(fetch_log)].after

\* C27 witness: three fetches, two written under different names and one
\* answered from the cache; the counter is 2.
C27_Witness ==
    /\ Len(fetch_log) = 3
    /\ store.counter = 2
    /\ Len(store.cache) = 2
    /\ store.cache[1].rel = Asset(1, ".png")
    /\ store.cache[2].rel = Asset(2, ".png")
    /\ store.cache[1].url # store.cache[2].url
    /\ fetch_log[3].why = "cached"

(***************************************************************************)
(* Multi-column regions: claim C28 (checked under SpecFlow).               *)
(***************************************************************************)
FlowKinds == {"p", "list", "quote", "cite"}

\* The ids of the elements whose output is the j-th entry of parts.
PartIds(j) ==
    IF parts[j].kind \in {"flow", "hybridcols"}
      THEN {parts[j].items[i].id : i \in 1..Len(parts[j].items)}
      ELSE {parts[j].id}

\* C28: in the list render_blocks returns, every chunk, and so every
\* hybridcols entry, which is one begin/end pair around a chunk, holds at
\* least one block; its blocks are paragraphs, lists, quotes and citations
\* in the order of the pass; no other entry of parts comes from an element
\* between its first and its last block; and no heading, image, code block,
\* composite region or rule is ever part of a chunk.
C28_HybridRegionHoldsOnlyFlow ==
    rpc = "done" =>
    \A j \in 1..Len(parts) :
        IF parts[j].kind \in {"flow", "hybridcols"}
          THEN LET items == parts[j].items
               IN  /\ Len(items) >= 1
                   /\ \A i \in 1..Len(items) : items[i].kind \in FlowKinds
                   /\ \A i \in 1..(Len(items) - 1) : items[i].id < items[i + 1].id
                   /\ \A k \in 1..Len(parts) : \A x \in PartIds(k) :
                         k # j => (x < items[1].id \/ x > items[Len(items)].id)
          ELSE parts[j].items = <<>> /\ parts[j].kind \notin FlowKinds

\* C28 witness: a paragraph and a list of 110 words and more are one
\* hybridcols region, cut off by the rule that follows them.
C28_Witness ==
    /\ rpc = "done"
    /\ Len(parts) = 2
    /\ parts[1].kind = "hybridcols"
    /\ Len(parts[1].items) = 2
    /\ parts[1].items[1].kind = "p"
    /\ parts[1].items[2].kind = "list"
    /\ parts[2].kind = "rule"

(***************************************************************************)
(* Content emitted once: claim C29 (checked under SpecNested).             *)
(***************************************************************************)
\* The blocks in the returned list, chunks taken apart: [kind, id, anc].
Blocks ==
    UNION {IF parts[j].kind \in {"flow", "hybridcols"}
             THEN {[kind |-> parts[j].items[i].kind, id |-> parts[j].items[i].id,
                    anc |-> parts[j].items[i].anc] : i \in 1..Len(parts[j].items)}
             ELSE {[kind |-> parts[j].kind, id |-> parts[j].id, anc |-> parts[j].anc]}
           : j \in 1..Len(parts)}

\* The k-th ancestor of block b was emitted as a block that renders b's
\* text too: a quote or an example title (convert_children of the whole
\* element), or a list one of whose items holds b (render_list renders the
\* li elements).
AncestorRendersText(b, k) ==
    \E a \in Blocks :
        /\ a.id = b.anc[k].id
        /\ \/ a.kind \in {"quote", "modelexampletitle"}
           \/ a.kind = "list" /\ \E m \in (k + 1)..Len(b.anc) : b.anc[m].tag = "li"

\* C29: no paragraph or list in the returned list lies inside an element
\* that was itself emitted as a block with the paragraph's or list's text.
C29_ContentEmittedOnce ==
    rpc = "done" =>
        \A b \in Blocks :
            b.kind \in {"p", "list"} =>
                \A k \in 1..Len(b.anc) : ~AncestorRendersText(b, k)

(***************************************************************************)
(* Frontmatter: claim C30 (checked under SpecFrontmatter).                 *)
(***************************************************************************)
\* A line that is '---', a blank or comment line, a line without a colon.
IsMarker(l) == StripLine(l) = Marker
IsSkipped(l) == StripLine(l) = <<>> \/ StripLine(l)[1] = "#"
IsInvalid(l) == ~IsMarker(l) /\ ~IsSkipped(l) /\ ~HasColon(l)

\* The key/value lines of f before line c, a later line overriding an
\* earlier one with the same key.
Collected(f, c) ==
    LET kv == {i \in 2..(c - 1) : ~IsSkipped(f[i]) /\ HasColon(f[i])}
    IN  [k \in {KeyOf(f[i]) : i \in kv} |->
            ValueOf(f[CHOOSE i \in kv : KeyOf(f[i]) = k
                                        /\ \A j \in kv : KeyOf(f[j]) = k => j <= i])]

\* C30: parse_frontmatter raises unless the first line is '---'; else it
\* stops at the first later line that is '---' or has no ':' (blank and
\* comment lines aside), whichever comes first: at a '---' it returns the
\* mapping of the lines before it and has read no line after it, at a line
\* without ':' it raises; and if the file ends before either, it raises.  A
\* call that raises returns no mapping.
C30_ParseFrontmatter ==
    last_call.fn = "parse_frontmatter" =>
        LET f    == last_call.arg
            out  == last_call.out
            stop == {i \in 2..Len(f) : IsMarker(f[i]) \/ IsInvalid(f[i])}
            c    == CHOOSE i \in stop : \A j \in stop : i <= j
        IN  /\ out.raised # "" <=> ~out.returned
            /\ IF f = <<>> \/ ~IsMarker(f[1]) THEN out.raised = "must start"
               ELSE IF stop = {} THEN out.raised = "must end"
               ELSE IF IsInvalid(f[c]) THEN out.raised = "invalid line"
               ELSE /\ out.returned
                    /\ out.data = Collected(f, c)
                    /\ out.read = c

\* C30 witness: a file of '---', a key line, '---' and one more line: the
\* mapping of the one key is returned and the fourth line is not read.
C30_Witness ==
    /\ last_call.fn = "parse_frontmatter"
    /\ Len(last_call.arg) = 4
    /\ last_call.arg[2] = <<"k", ":", " ", "v">>
    /\ IsMarker(last_call.arg[3])
    /\ last_call.out.returned
    /\ last_call.out.data = Put(<<>>, <<"k">>, <<"v">>)
    /\ last_call.out.read = 3

(***************************************************************************)
(* Booklet splitter: claims C3 - C6 (checked under SpecBooklet).           *)
(***************************************************************************)

\* C3: for every T >= 0 and S >= 2, when write_stapled_sections returns, the
\* content pages of its sections, concatenated in section order, are exactly
\* the original pages 0..T-1: no gap, no overlap, no reordering.
C3_SectionsPartitionPages ==
    SectionsReturned => ConcatPages(outputs) = Range(0, total_pages)

\* C3 witness: a run that split 7 pages into sections of 3 + 3 + 1.
C3_Witness ==
    /\ SectionsReturned
    /\ total_pages = 7
    /\ section_max_pages = 4
    /\ Len(outputs) = 3
    /\ Len(outputs[3].pages) = 1

\* C4 as claimed: exactly ceil(T / (S-1)) sections, section i covering
\* [i*(S-1), min((i+1)*(S-1), T)).  Fails for T = 0, where the code writes
\* one (empty) section.
C4_Original ==
    SectionsReturned =>
        /\ Len(outputs) = CeilDiv(total_pages, section_max_pages - 1)
        /\ \A k \in 1..Len(outputs) :
              outputs[k].pages =
                  Range((k - 1) * (section_max_pages - 1),
                        Min(k * (section_max_pages - 1), total_pages))

\* C4 amended: max(1, ceil(T / (S-1))) sections, that is ceil(T / (S-1)) for
\* T >= 1 and one section without content pages for T = 0; section i
\* (0-indexed) covers [i*(S-1), min((i+1)*(S-1), T)).
C4_SectionCountAndRanges ==
    SectionsReturned =>
        /\ Len(outputs) = IF total_pages = 0 THEN 1
                          ELSE CeilDiv(total_pages, section_max_pages - 1)
        /\ \A k \in 1..Len(outputs) :
              outputs[k].pages =
                  Range((k - 1) * (section_max_pages - 1),
                        Min(k * (section_max_pages - 1), total_pages))

\* C4 witness: 11 pages and S = 5 give ceil(11 / 4) = 3 sections.
C4_Witness ==
    /\ SectionsReturned
    /\ total_pages = 11
    /\ section_max_pages = 5
    /\ Len(outputs) = 3

\* C5: for every S < 2 the run ends in the configuration error, and nothing
\* has been written when it does (no document, no cover, no section file).
C5_AbortsBeforeAnyOutput ==
    (section_max_pages < 2 /\ bpc \in {"done", "error"}) =>
        /\ bpc = "error"
        /\ ~main_pdf
        /\ covers = <<>>
        /\ outputs = <<>>

\* C6: every section file is one cover page followed by its content pages,
\* has at most S pages, and its cover states its 1-based index k, the section
\* count, and the range start+1..end; T = 25, S = 6 gives 5 sections with
\* covers "Booklet k of 5" and ranges 1-5, 6-10, 11-15, 16-20, 21-25.
C6_SectionFilesAndCovers ==
    /\ \A k \in 1..Len(outputs) :
          LET f == outputs[k]
              start == (k - 1) * (section_max_pages - 1)
              end == Min(k * (section_max_pages - 1), total_pages)
          IN  /\ f.cover_pages = 1
              /\ f.cover = covers[k]
              /\ f.cover_pages + Len(f.pages) <= section_max_pages
              /\ f.cover.booklet_idx = k
              /\ f.cover.booklet_total = section_total
              /\ f.cover.content_start = start + 1
              /\ f.cover.content_end = end
              /\ f.pages # <<>> =>
                    /\ f.cover.content_start = f.pages[1] + 1
                    /\ f.cover.content_end = f.pages[Len(f.pages)] + 1
    /\ SectionsReturned => Len(outputs) = section_total
    /\ (SectionsReturned /\ total_pages = 25 /\ section_max_pages = 6) =>
          /\ Len(outputs) = 5
          /\ \A k \in 1..5 :
                /\ outputs[k].cover.booklet_idx = k
                /\ outputs[k].cover.booklet_total = 5
                /\ outputs[k].cover.content_start = 5 * k - 4
                /\ outputs[k].cover.content_end = 5 * k

\* C6 witness: the T = 25, S = 6 run has written its five sections.
C6_Witness ==
    /\ SectionsReturned
    /\ total_pages = 25
    /\ section_max_pages = 6
    /\ Len(outputs) = 5
    /\ outputs[5].cover.content_end = 25

====
